---- MODULE Spec2Model ----
(***************************************************************************)
(* Document / layer-set model of sift.model.document.                      *)
(*                                                                         *)
(* A Document owns the catalogue _layer_with_uuid and a list of layer sets *)
(* (DocLayerStack objects, or None for a slot not yet populated).  Python  *)
(* objects that can be shared are kept in a heap addressed by reference,   *)
(* so that copying and aliasing are different things in the model.  Every  *)
(* method is one operator from a document value to a document value: it    *)
(* threads the catalogue, the slots, the heap, the emitted signals and the *)
(* pending exception, and stops at the statement that raises.              *)
(***************************************************************************)
EXTENDS Integers, Sequences, FiniteSets, TLC

\* ------------------------------------------------------------- bounds
MaxImages == 2          \* paths that can be imported
MaxComposites == 1      \* composites created along one behaviour
MaxLayers == 2          \* layers in the catalogue at one time
MaxSets == 2            \* layer-set slots
MaxBatch == 2           \* length of a selector list, a uuid list, a row count
MaxInsertBefore == 1    \* the insert_before argument of open_file
MaxChannels == 1        \* channels given to create_rgb_composite
MaxSiblings == 2        \* composites created where siblings are followed
MaxAssigned == 2        \* channels, from r on, that siblings are given

\* ------------------------------------------------------------- values
None == <<>>
Some(x) == <<x>>
Val(o) == o[1]

Min(a, b) == IF a < b THEN a ELSE b

Range(f) == {f[x] : x \in DOMAIN f}

\* dict.get(k, None)
Get(d, k) == IF k \in DOMAIN d THEN Some(d[k]) ELSE None

\* dict with d[k] = v assigned
Put(d, k, v) == (k :> v) @@ d

\* a dict with key k deleted
Del(d, k) == [x \in DOMAIN d \ {k} |-> d[x]]

\* list.insert(i, x) for i >= 0: positions past the end append
ListInsert(seq, i, x) ==
    LET k == Min(i, Len(seq))
    IN SubSeq(seq, 1, k) \o <<x>> \o SubSeq(seq, k + 1, Len(seq))

\* seq[row:row+count] for row, count >= 0
ListSlice(seq, row, count) ==
    SubSeq(seq, Min(row, Len(seq)) + 1, Min(row + count, Len(seq)))

\* del seq[row:row+count] for row, count >= 0
ListDelSlice(seq, row, count) ==
    SubSeq(seq, 1, Min(row, Len(seq)))
        \o SubSeq(seq, Min(row + count, Len(seq)) + 1, Len(seq))

\* tuple(range(n)) as a tuple of present values
RangeTuple(n) == [i \in 1..n |-> Some(i - 1)]

\* the sequences over S of length lo..hi
SeqsOf(S, lo, hi) == UNION {[1..n -> S] : n \in lo..hi}

\* ------------------------------------------------------------- identifiers
\* workspace.import_image maps a path to the UUID of its dataset
Paths == 1..MaxImages
import_image(path) == path

\* uuid1(): the n-th identifier generated for a composite
uuidgen(n) == MaxImages + n

\* the paths of two time steps: Paths, and the same bands scheduled later
TimeSteps == {0, MaxImages + MaxSiblings}
TimedPaths == {path + 3 * step : path \in Paths, step \in TimeSteps}

UUIDs == 1..(MaxImages + MaxComposites)

\* ------------------------------------------------------------- state
VARIABLES
    layer_with_uuid,    \* Document._layer_with_uuid : uuid -> layer
    layer_sets,         \* Document._layer_sets : list of None or a reference
    heap,               \* reference -> DocLayerStack or list object
    current_set_index,  \* Document.current_set_index
    generated,          \* how many uuid1() identifiers were drawn so far
    op,                 \* the last call and its arguments
    err,                \* the exception that call raised, or "none"
    signals,            \* what that call emitted and asked of the workspace, in order
    calls               \* the change_rgb_component_layer calls made during that call

vars == <<layer_with_uuid, layer_sets, heap, current_set_index, generated,
          op, err, signals, calls>>

Refs == 0..(MaxSets - 1)

\* ------------------------------------------------------------- objects
NoObject == [cls |-> "free", store |-> <<>>, u2r |-> None]

\* DocLayerStack(doc, items): _store = list(items), _u2r = None
DocLayerStack(items) == [cls |-> "DocLayerStack", store |-> items, u2r |-> None]

\* a plain Python list
PyList(items) == [cls |-> "list", store |-> items, u2r |-> None]

prez(uuid, kind, visible, a_order, colormap, climits) ==
    [uuid |-> uuid, kind |-> kind, visible |-> visible, a_order |-> a_order,
     colormap |-> colormap, climits |-> climits, mixing |-> "NORMAL"]

\* dict((p.uuid, i) for (i, p) in enumerate(self._store))
BuildU2R(store) ==
    [u \in {store[i].uuid : i \in DOMAIN store} |->
        CHOOSE r \in 0..(Len(store) - 1) :
            /\ store[r + 1].uuid = u
            /\ \A q \in 0..(Len(store) - 1) : store[q + 1].uuid = u => q <= r]

\* DocLayerStack.uuid2row: the object after the property was read
uuid2row(o) == IF o.u2r = None THEN [o EXCEPT !.u2r = Some(BuildU2R(o.store))] ELSE o

\* DocLayerStack.__setitem__ for an index the caller found valid
DocLayerStack_setitem(o, index, value) ==
    IF index >= 0 /\ index < Len(o.store)
    THEN [o EXCEPT !.store[index + 1] = value, !.u2r = None]
    ELSE [o EXCEPT !.store = Append(@, value), !.u2r = None]

\* DocLayerStack.insert putting the value after the entries already there
DocLayerStack_insert_last(o, index, value) ==
    [o EXCEPT !.store = Append(@, value), !.u2r = None]

\* DocLayerStack.insert leaving the uuid-to-row cache as it is
DocLayerStack_insert_keepcache(o, index, value) ==
    [o EXCEPT !.store = ListInsert(@, index, value)]

\* DocLayerStack.insert / list.insert
DocLayerStack_insert(o, index, value) ==
    [o EXCEPT !.store = ListInsert(@, index, value), !.u2r = None]

\* DocLayerStack.__delitem__ / del list[...] with a slice row:row+count
DocLayerStack_delitem(o, row, count) ==
    [o EXCEPT !.store = ListDelSlice(@, row, count), !.u2r = None]

\* DocLayerStack.clear_animation_order
clear_animation_order(o) ==
    [o EXCEPT !.store = [i \in DOMAIN o.store |-> [o.store[i] EXCEPT !.a_order = None]]]

\* ------------------------------------------------------------- document values
\* The document as one value while a method runs.
Doc == [lw |-> layer_with_uuid, ls |-> layer_sets, hp |-> heap,
        cur |-> current_set_index, gen |-> generated,
        tr |-> <<>>, err |-> "none", depth |-> 0, calls |-> <<>>]

Raise(d, e) == [d EXCEPT !.err = e]
Emit(d, ev) == [d EXCEPT !.tr = Append(@, ev)]

\* entering and leaving a frame of change_rgb_component_layer
Enter(d, propagate_to_siblings) ==
    [d EXCEPT !.depth = @ + 1,
              !.calls = Append(@, [depth |-> d.depth + 1,
                                   propagate_to_siblings |-> propagate_to_siblings])]
Leave(d) == [d EXCEPT !.depth = @ - 1]

\* Document.current_layer_set, as a reference into the heap
current_layer_set(d) == Val(d.ls[d.cur + 1])

\* the populated slots (0-based) of a document value
Populated(d) == {i \in 0..(Len(d.ls) - 1) : d.ls[i + 1] # None}

\* ------------------------------------------------------------- guidebook
\* AHI_HSF_Guidebook.default_colormap / climits: opaque per-dataset defaults
default_colormap(uuid) == Some("default")
guidebook_climits(uuid) == <<0, uuid>>

\* DocBasicLayer(doc, info)
DocBasicLayer(uuid) ==
    [kind |-> "IMAGE", r |-> None, g |-> None, b |-> None,
     clim |-> guidebook_climits(uuid)]

\* Document.update_dataset_info(new_info): new_info carries the uuid and the
\* color limits; a missing uuid is logged and then looked up all the same
update_dataset_info(d, new_info) ==
    IF new_info.uuid \notin DOMAIN d.lw
    THEN Raise(d, "KeyError")              \* self._layer_with_uuid[uuid]
    ELSE [d EXCEPT !.lw[new_info.uuid].clim = new_info.clim]

\* ------------------------------------------------------------- open
\* the loop of _insert_layer_with_info over self._layer_sets, from slot dex on
RECURSIVE insert_into_layer_sets(_, _, _, _, _)
insert_into_layer_sets(d, dex, p, q, insert_before) ==
    IF dex >= Len(d.ls) THEN d
    ELSE LET lset == d.ls[dex + 1]
             d1 == IF lset = None THEN d
                   ELSE [d EXCEPT !.hp[Val(lset)] =
                            DocLayerStack_insert(@, insert_before,
                                                 IF dex = d.cur THEN p ELSE q)]
         IN insert_into_layer_sets(d1, dex + 1, p, q, insert_before)

\* Document._insert_layer_with_info with the copy for the other sets left visible
insert_layer_with_info_visible(d, uuid, cmap, insert_before) ==
    LET layer == d.lw[uuid]
        p == prez(uuid, layer.kind, TRUE, None, cmap, layer.clim)
    IN insert_into_layer_sets(d, 0, p, p, insert_before)

\* Document._insert_layer_with_info: the document after the insertion
insert_layer_with_info(d, uuid, cmap, insert_before) ==
    LET layer == d.lw[uuid]
        p == prez(uuid, layer.kind, TRUE, None, cmap, layer.clim)
        q == [p EXCEPT !.visible = FALSE]
    IN insert_into_layer_sets(d, 0, p, q, insert_before)

\* the tuple _insert_layer_with_info returns beside the prez
reordered_indices(d) == <<None>> \o RangeTuple(Len(d.hp[current_layer_set(d)].store))

\* Document.open_file without the test for an identifier already in the catalogue
open_file_unguarded(d, path, insert_before, format_ok) ==
    LET uuid == import_image(path)
        d1 == [d EXCEPT !.lw = Put(@, uuid, DocBasicLayer(uuid))]
        cmap == default_colormap(uuid)
        d2 == insert_layer_with_info(d1, uuid, cmap, insert_before)
        p == prez(uuid, "IMAGE", TRUE, None, cmap, d1.lw[uuid].clim)
    IN Emit(d2, [sig |-> "didAddBasicLayer", order |-> reordered_indices(d1),
                 uuid |-> uuid, prez |-> p])

\* Document.open_file.  format_ok: whether "{0:s}".format(uuid) in the warning
\* of the early return is accepted by the interpreter.
open_file(d, path, insert_before, format_ok) ==
    LET uuid == import_image(path)
    IN IF uuid \in DOMAIN d.lw
       THEN IF format_ok THEN d ELSE Raise(d, "TypeError")
       ELSE LET d1 == [d EXCEPT !.lw = Put(@, uuid, DocBasicLayer(uuid))]
                cmap == default_colormap(uuid)
                d2 == insert_layer_with_info(d1, uuid, cmap, insert_before)
                p == prez(uuid, "IMAGE", TRUE, None, cmap, d1.lw[uuid].clim)
            IN Emit(d2, [sig |-> "didAddBasicLayer",
                         order |-> reordered_indices(d1),
                         uuid |-> uuid, prez |-> p])

\* ------------------------------------------------------------- visibility
\* A selector is a row of the current set or an identifier.
Row(n) == [t |-> "row", v |-> n]
Uuid(u) == [t |-> "uuid", v |-> u]

\* the loop of toggle_layer_visibility writing a fresh entry for the layer in
\* place of a copy of the old one
RECURSIVE toggle_loop_fresh_entry(_, _, _, _)
toggle_loop_fresh_entry(d, rows_or_uuids, visible, zult) ==
    IF rows_or_uuids = <<>> THEN [d |-> d, zult |-> zult]
    ELSE
    LET ref == current_layer_set(d)
        L == d.hp[ref]
        dex == Head(rows_or_uuids)
        L1 == IF dex.t = "uuid" THEN uuid2row(L) ELSE L
        row == IF dex.t = "uuid" THEN Get(Val(L1.u2r), dex.v) ELSE Some(dex.v)
    IN
    IF row = None THEN [d |-> Raise(d, "ValueError"), zult |-> zult]
    ELSE IF Val(row) >= Len(L1.store) THEN [d |-> Raise(d, "IndexError"), zult |-> zult]
    ELSE
    LET old == L1.store[Val(row) + 1]
        vis == IF visible = None THEN ~old.visible ELSE Val(visible)
        nu == prez(old.uuid, old.kind, vis, None, None, old.climits)
        d2 == [d EXCEPT !.hp[ref] = DocLayerStack_setitem(L1, Val(row), nu)]
    IN toggle_loop_fresh_entry(d2, Tail(rows_or_uuids), visible, Put(zult, nu.uuid, nu.visible))

\* The loop of Document.toggle_layer_visibility over rows_or_uuids.  Returns the
\* document and the dict zult built so far; stops at the statement that raises.
RECURSIVE toggle_loop(_, _, _, _)
toggle_loop(d, rows_or_uuids, visible, zult) ==
    IF rows_or_uuids = <<>> THEN [d |-> d, zult |-> zult]
    ELSE
    LET ref == current_layer_set(d)
        L == d.hp[ref]
        dex == Head(rows_or_uuids)
    IN
    IF dex.t = "uuid" /\ L.cls = "list"
    THEN \* list.index(uuid): no prez equals a UUID
         [d |-> Raise(d, "ValueError"), zult |-> zult]
    ELSE
    LET L1 == IF dex.t = "uuid" THEN uuid2row(L) ELSE L   \* L.index(dex)
        d1 == [d EXCEPT !.hp[ref] = L1]
        row == IF dex.t = "uuid" THEN Get(Val(L1.u2r), dex.v) ELSE Some(dex.v)
    IN
    IF row = None
    THEN \* L[None]: DocLayerStack.__getitem__ falls through to its ValueError
         [d |-> Raise(d1, "ValueError"), zult |-> zult]
    ELSE IF Val(row) >= Len(L1.store)
    THEN [d |-> Raise(d1, "IndexError"), zult |-> zult]
    ELSE
    LET old == L1.store[Val(row) + 1]
        vis == IF visible = None THEN ~old.visible ELSE Val(visible)
        nu == [old EXCEPT !.visible = vis]
        d2 == [d1 EXCEPT !.hp[ref] = DocLayerStack_setitem(L1, Val(row), nu)]
    IN toggle_loop(d2, Tail(rows_or_uuids), visible, Put(zult, nu.uuid, nu.visible))

\* Document.toggle_layer_visibility
toggle_layer_visibility(d, rows_or_uuids, visible) ==
    LET r == toggle_loop(d, rows_or_uuids, visible, <<>>)
    IN IF r.d.err # "none" THEN r.d
       ELSE Emit(r.d, [sig |-> "didChangeLayerVisibility", zult |-> r.zult])

\* ------------------------------------------------------------- removal
\* Document.is_using consulting only the current layer set
is_using_current_only(d, uuid) ==
    \E i \in DOMAIN d.hp[current_layer_set(d)].store :
        d.hp[current_layer_set(d)].store[i].uuid = uuid

\* Document.is_using(uuid) with layer_set=None
is_using(d, uuid) ==
    \E dex \in Populated(d) :
        \E i \in DOMAIN d.hp[Val(d.ls[dex + 1])].store :
            d.hp[Val(d.ls[dex + 1])].store[i].uuid = uuid

\* the purge loop of remove_layer_prez over the removed uuids
RECURSIVE purge_loop(_, _)
purge_loop(d, uuids) ==
    IF uuids = <<>> \/ d.err # "none" THEN d
    ELSE LET uuid == Head(uuids)
         IN IF is_using(d, uuid) THEN purge_loop(d, Tail(uuids))
            ELSE LET d1 == Emit(d, [sig |-> "willPurgeLayer", uuid |-> uuid,
                                    in_catalogue |-> uuid \in DOMAIN d.lw])
                 IN IF uuid \notin DOMAIN d1.lw THEN Raise(d1, "KeyError")
                    ELSE LET d2 == Emit([d1 EXCEPT !.lw = Del(@, uuid)],
                                        [sig |-> "del _layer_with_uuid", uuid |-> uuid])
                             d3 == Emit(d2, [sig |-> "workspace.remove", uuid |-> uuid])
                         IN purge_loop(d3, Tail(uuids))

\* Document.row_for_uuid(uuid): the row, or None where d[uuid] raises KeyError
row_for_uuid(d, uuid) ==
    Get(BuildU2R(d.hp[current_layer_set(d)].store), uuid)

\* Document.remove_layer_prez purging before it emits didRemoveLayers
remove_layer_prez_purge_early(d, row_or_uuid, count) ==
    LET L == d.hp[current_layer_set(d)]
        byuuid == row_or_uuid.t = "uuid" /\ count = 1
        found == IF byuuid THEN row_for_uuid(d, row_or_uuid.v) ELSE Some(row_or_uuid.v)
    IN
    IF byuuid /\ found = None THEN Raise(d, "KeyError")
    ELSE IF ~byuuid /\ L.cls = "DocLayerStack" THEN Raise(d, "ValueError")
    ELSE
    LET row == Val(found)
        uuids == IF byuuid THEN <<row_or_uuid.v>>
                 ELSE [i \in DOMAIN ListSlice(L.store, row, count) |->
                          ListSlice(L.store, row, count)[i].uuid]
        d1 == toggle_layer_visibility(d, [i \in 1..count |-> Row(row + i - 1)], Some(FALSE))
    IN
    IF d1.err # "none" THEN d1
    ELSE
    LET ref == current_layer_set(d1)
        n == Len(d1.hp[ref].store)
        clo == ListDelSlice([i \in 1..n |-> i - 1], row, count)
        d2 == purge_loop([d1 EXCEPT !.hp[ref] = DocLayerStack_delitem(@, row, count)], uuids)
    IN IF d2.err # "none" THEN d2
       ELSE Emit(d2, [sig |-> "didRemoveLayers", order |-> clo, uuids |-> uuids,
                      row |-> row, count |-> count])

\* Document.remove_layer_prez
remove_layer_prez(d, row_or_uuid, count) ==
    LET L == d.hp[current_layer_set(d)]
        byuuid == row_or_uuid.t = "uuid" /\ count = 1
        found == IF byuuid THEN row_for_uuid(d, row_or_uuid.v) ELSE Some(row_or_uuid.v)
    IN
    IF byuuid /\ found = None THEN Raise(d, "KeyError")
    ELSE IF ~byuuid /\ L.cls = "DocLayerStack"
    THEN \* self.current_layer_set[row:row+count]: __getitem__ takes no slice
         Raise(d, "ValueError")
    ELSE
    LET row == Val(found)
        uuids == IF byuuid THEN <<row_or_uuid.v>>
                 ELSE [i \in DOMAIN ListSlice(L.store, row, count) |->
                          ListSlice(L.store, row, count)[i].uuid]
        d1 == toggle_layer_visibility(d, [i \in 1..count |-> Row(row + i - 1)], Some(FALSE))
    IN
    IF d1.err # "none" THEN d1
    ELSE
    LET ref == current_layer_set(d1)
        n == Len(d1.hp[ref].store)
        clo == ListDelSlice([i \in 1..n |-> i - 1], row, count)
        d2 == [d1 EXCEPT !.hp[ref] = DocLayerStack_delitem(@, row, count)]
        d3 == Emit(d2, [sig |-> "didRemoveLayers", order |-> clo, uuids |-> uuids,
                        row |-> row, count |-> count])
    IN purge_loop(d3, uuids)

\* the inner loops of remove_layers_from_all_sets for one uuid: slot dex onward
RECURSIVE remove_from_other_sets(_, _, _)
remove_from_other_sets(d, uuid, dex) ==
    IF dex >= Len(d.ls) THEN d
    ELSE IF dex = d.cur \/ d.ls[dex + 1] = None
    THEN remove_from_other_sets(d, uuid, dex + 1)
    ELSE LET ref == Val(d.ls[dex + 1])
             store == d.hp[ref].store
             hits == {i \in DOMAIN store : store[i].uuid = uuid}
             d1 == IF hits = {} THEN d
                   ELSE LET pdex == CHOOSE i \in hits : \A j \in hits : i <= j
                        IN [d EXCEPT !.hp[ref] = DocLayerStack_delitem(@, pdex - 1, 1)]
         IN remove_from_other_sets(d1, uuid, dex + 1)

\* Document.remove_layers_from_all_sets
RECURSIVE remove_layers_from_all_sets(_, _)
remove_layers_from_all_sets(d, uuids) ==
    IF uuids = <<>> \/ d.err # "none" THEN d
    ELSE LET d1 == remove_from_other_sets(d, Head(uuids), 0)
             d2 == remove_layer_prez(d1, Uuid(Head(uuids)), 1)
         IN remove_layers_from_all_sets(d2, Tail(uuids))

\* ------------------------------------------------------------- layer sets
\* the references held by the slots other than slot dex
RefsOfOthers(d, dex) ==
    {Val(d.ls[i + 1]) : i \in Populated(d) \ {dex}}

\* the reference a newly constructed object gets when it is stored in slot dex:
\* the slot's own cell when nothing else shares it, else the first free one
NewRef(d, dex) ==
    IF dex < Len(d.ls) /\ d.ls[dex + 1] # None /\ Val(d.ls[dex + 1]) \notin RefsOfOthers(d, dex)
    THEN Val(d.ls[dex + 1])
    ELSE CHOOSE r \in Refs \ RefsOfOthers(d, dex) :
            \A q \in Refs \ RefsOfOthers(d, dex) : r <= q

\* Document._clone_layer_set returning the set it was given
clone_layer_set_shared(d, existing, dex) ==
    [d |-> d, ref |-> Some(existing)]

\* Document._clone_layer_set: DocLayerStack(existing_layer_set), stored in slot dex.
\* Returns the document and the new reference, or None where the constructor raises.
clone_layer_set(d, existing, dex) ==
    IF d.hp[existing].cls # "DocLayerStack"
    THEN [d |-> Raise(d, "ValueError"), ref |-> None]
    ELSE LET ref == NewRef(d, dex)
         IN [d |-> [d EXCEPT !.hp[ref] = DocLayerStack(d.hp[existing].store)],
             ref |-> Some(ref)]

\* the rows of store with an animation ordinal, sorted by (a_order, uuid)
RECURSIVE SortedAnimation(_, _)
SortedAnimation(store, rows) ==
    IF rows = {} THEN <<>>
    ELSE LET Key(i) == <<Val(store[i].a_order), store[i].uuid, i>>
             Less(x, y) == \/ x[1] < y[1]
                           \/ x[1] = y[1] /\ x[2] < y[2]
                           \/ x[1] = y[1] /\ x[2] = y[2] /\ x[3] <= y[3]
             first == CHOOSE i \in rows : \A j \in rows : Less(Key(i), Key(j))
         IN <<store[first].uuid>> \o SortedAnimation(store, rows \ {first})

\* the getter without aouu.sort(): the identifiers in the order of the entries
animation_order_as_stored(o) ==
    LET animated == SelectSeq(o.store, LAMBDA p : p.a_order # None)
    IN [i \in DOMAIN animated |-> animated[i].uuid]

\* DocLayerStack.animation_order (getter)
animation_order(o) ==
    SortedAnimation(o.store, {i \in DOMAIN o.store : o.store[i].a_order # None})

\* the loop of the animation_order setter over enumerate(layer_or_uuid_seq)
RECURSIVE animation_order_loop(_, _, _)
animation_order_loop(r, layer_or_uuid_seq, nth) ==
    IF layer_or_uuid_seq = <<>> \/ r.err # "none" THEN r
    ELSE LET o1 == uuid2row(r.o)     \* idx = self[lu]
             idx == Get(Val(o1.u2r), Head(layer_or_uuid_seq))
         IN IF idx = None
            THEN \* self._store[None]
                 [o |-> o1, err |-> "TypeError"]
            ELSE animation_order_loop(
                    [o |-> [o1 EXCEPT !.store[Val(idx) + 1].a_order = Some(nth)],
                     err |-> "none"],
                    Tail(layer_or_uuid_seq), nth + 1)

\* DocLayerStack.animation_order (setter): the object afterwards and the exception
animation_order_set(o, layer_or_uuid_seq) ==
    animation_order_loop([o |-> clear_animation_order(o), err |-> "none"],
                         layer_or_uuid_seq, 0)

\* doc.current_layer_set.animation_order = layer_or_uuid_seq
set_current_animation_order(d, layer_or_uuid_seq) ==
    LET ref == current_layer_set(d)
    IN IF d.hp[ref].cls # "DocLayerStack"
       THEN Raise(d, "AttributeError")    \* a list has no such attribute
       ELSE LET r == animation_order_set(d.hp[ref], layer_or_uuid_seq)
            IN [d EXCEPT !.hp[ref] = r.o, !.err = r.err]

\* a select_layer_set that appends the slot before it checks the index
select_layer_set_append_first(d, layer_set_index) ==
    LET d1 == IF layer_set_index >= Len(d.ls) THEN [d EXCEPT !.ls = Append(@, None)] ELSE d
    IN IF ~(layer_set_index <= Len(d.ls) /\ layer_set_index >= 0)
       THEN Raise(d1, "AssertionError")
       ELSE LET c == IF d1.ls[layer_set_index + 1] = None
                     THEN clone_layer_set(d1, current_layer_set(d1), layer_set_index)
                     ELSE [d |-> d1, ref |-> d1.ls[layer_set_index + 1]]
                d2 == [c.d EXCEPT !.ls[layer_set_index + 1] = c.ref, !.cur = layer_set_index]
            IN Emit(d2, [sig |-> "didSwitchLayerSet", index |-> layer_set_index,
                         entries |-> d2.hp[current_layer_set(d2)].store,
                         animation |-> <<>>])

\* a select_layer_set that moves the entries to the new slot and empties the
\* slot it leaves
select_layer_set_moving(d, layer_set_index) ==
    IF ~(layer_set_index <= Len(d.ls) /\ layer_set_index >= 0)
    THEN Raise(d, "AssertionError")
    ELSE
    LET d1 == IF layer_set_index = Len(d.ls) THEN [d EXCEPT !.ls = Append(@, None)] ELSE d
    IN IF d1.ls[layer_set_index + 1] # None
       THEN Emit([d1 EXCEPT !.cur = layer_set_index],
                 [sig |-> "didSwitchLayerSet", index |-> layer_set_index,
                  entries |-> d1.hp[Val(d1.ls[layer_set_index + 1])].store,
                  animation |-> <<>>])
       ELSE Emit([d1 EXCEPT !.ls[layer_set_index + 1] = d1.ls[d1.cur + 1],
                            !.ls[d1.cur + 1] = None,
                            !.cur = layer_set_index],
                 [sig |-> "didSwitchLayerSet", index |-> layer_set_index,
                  entries |-> d1.hp[current_layer_set(d1)].store,
                  animation |-> <<>>])

\* Document.select_layer_set
select_layer_set(d, layer_set_index) ==
    IF ~(layer_set_index <= Len(d.ls) /\ layer_set_index >= 0)
    THEN Raise(d, "AssertionError")
    ELSE
    LET d1 == IF layer_set_index = Len(d.ls) THEN [d EXCEPT !.ls = Append(@, None)] ELSE d
        c == IF d1.ls[layer_set_index + 1] = None
             THEN clone_layer_set(d1, current_layer_set(d1), layer_set_index)
             ELSE [d |-> d1, ref |-> d1.ls[layer_set_index + 1]]
    IN
    IF c.d.err # "none" THEN c.d
    ELSE
    LET d2 == [c.d EXCEPT !.ls[layer_set_index + 1] = c.ref, !.cur = layer_set_index]
        L == d2.hp[current_layer_set(d2)]
    IN IF L.cls # "DocLayerStack"
       THEN Raise(d2, "AttributeError")   \* current_animation_order on a list
       ELSE Emit(d2, [sig |-> "didSwitchLayerSet", index |-> layer_set_index,
                      entries |-> L.store, animation |-> animation_order(L)])

\* Document.reorder_by_indices without the assertion on the length
reorder_by_indices_unchecked(d, new_order) ==
    LET dex == d.cur
        L == d.hp[current_layer_set(d)]
    IN
    IF \E i \in DOMAIN new_order : new_order[i] >= Len(L.store)
    THEN Raise(d, "IndexError")
    ELSE
    LET new_layer_set == PyList([i \in DOMAIN new_order |-> L.store[new_order[i] + 1]])
        ref == NewRef(d, dex)
        d1 == [d EXCEPT !.hp[ref] = new_layer_set, !.ls[dex + 1] = Some(ref)]
    IN Emit(d1, [sig |-> "didReorderLayers", order |-> new_order])

\* Document.reorder_by_indices rebuilding the set in its old order
reorder_by_indices_keep(d, new_order) ==
    LET dex == d.cur
        L == d.hp[current_layer_set(d)]
    IN
    IF Len(new_order) # Len(L.store) THEN Raise(d, "AssertionError")
    ELSE
    LET ref == NewRef(d, dex)
        d1 == [d EXCEPT !.hp[ref] = PyList(L.store), !.ls[dex + 1] = Some(ref)]
    IN Emit(d1, [sig |-> "didReorderLayers", order |-> new_order])

\* Document.reorder_by_indices with layer_set_index=None
reorder_by_indices(d, new_order) ==
    LET dex == d.cur
        L == d.hp[current_layer_set(d)]
    IN
    IF Len(new_order) # Len(L.store) THEN Raise(d, "AssertionError")
    ELSE IF \E i \in DOMAIN new_order : new_order[i] >= Len(L.store)
    THEN Raise(d, "IndexError")
    ELSE
    LET new_layer_set == PyList([i \in DOMAIN new_order |-> L.store[new_order[i] + 1]])
        ref == NewRef(d, dex)
        d1 == [d EXCEPT !.hp[ref] = new_layer_set, !.ls[dex + 1] = Some(ref)]
    IN Emit(d1, [sig |-> "didReorderLayers", order |-> new_order])

\* ------------------------------------------------------------- RGB composites
\* Static metadata of an imported image: one platform and instrument, three
\* bands per scheduled time.
image_band(uuid) == ((uuid - 1) % 3) + 1
image_sched_time(uuid) == (uuid - 1) \div 3

\* DocRGBLayer(doc, ds_info): no channel assigned, INFO.CLIM = (None, None, None)
DocRGBLayer ==
    [kind |-> "RGB", r |-> None, g |-> None, b |-> None, clim |-> <<None, None, None>>]

Channels == <<"r", "g", "b">>

\* getattr(layer, k)
Channel(layer, k) == CASE k = "r" -> layer.r [] k = "g" -> layer.g [] k = "b" -> layer.b

\* setattr(layer, k, v)
SetChannel(layer, k, v) ==
    CASE k = "r" -> [layer EXCEPT !.r = v]
      [] k = "g" -> [layer EXCEPT !.g = v]
      [] k = "b" -> [layer EXCEPT !.b = v]

\* the first assigned channel of a composite, or None
FirstChannel(layer) ==
    IF layer.r # None THEN layer.r ELSE IF layer.g # None THEN layer.g ELSE layer.b

\* layer.band: an image's band, a composite's triplet of its channels' bands
band(d, uuid) ==
    LET layer == d.lw[uuid]
        gb(l) == IF l = None THEN None ELSE Some(image_band(Val(l)))
    IN IF layer.kind = "IMAGE" THEN Some(image_band(uuid))
       ELSE <<gb(layer.r), gb(layer.g), gb(layer.b)>>

\* layer.sched_time: a composite takes it from its channels
sched_time(d, uuid) ==
    LET layer == d.lw[uuid]
    IN IF layer.kind = "IMAGE" THEN Some(image_sched_time(uuid))
       ELSE IF FirstChannel(layer) = None THEN None
       ELSE Some(image_sched_time(Val(FirstChannel(layer))))

\* layer.platform and layer.instrument, as one value
platform_instrument(d, uuid) ==
    LET layer == d.lw[uuid]
    IN IF layer.kind = "IMAGE" \/ FirstChannel(layer) # None THEN Some("H8-AHI") ELSE None

\* Document._directory_of_layers(kind): the uuids of that kind
directory_of_layers(d, kind) == {u \in DOMAIN d.lw : d.lw[u].kind = kind}

\* the key _directory_of_layers yields beside a uuid
layer_key(d, uuid) ==
    <<platform_instrument(d, uuid), sched_time(d, uuid), band(d, uuid)>>

\* a set of uuids as the list sorted by (sched_time, uuid); all times are of one type
RECURSIVE SortedByTime(_, _)
SortedByTime(d, uuids) ==
    IF uuids = {} THEN <<>>
    ELSE LET T(u) == IF sched_time(d, u) = None THEN 0 ELSE Val(sched_time(d, u))
             first == CHOOSE u \in uuids : \A v \in uuids :
                          T(u) < T(v) \/ (T(u) = T(v) /\ u <= v)
         IN <<first>> \o SortedByTime(d, uuids \ {first})

\* Document._rgb_layer_siblings_uuids
rgb_layer_siblings_uuids(d, master) ==
    SortedByTime(d, {u \in directory_of_layers(d, "RGB") :
                        /\ platform_instrument(d, u) = platform_instrument(d, master)
                        /\ band(d, u) = band(d, master)})

\* building_blocks.get((plat, inst, time, band), None) over the image layers
building_block(d, plat_inst, time, bnd) ==
    LET hits == {u \in directory_of_layers(d, "IMAGE") :
                    layer_key(d, u) = <<plat_inst, time, bnd>>}
    IN IF hits = {} THEN None ELSE Some(CHOOSE u \in hits : TRUE)

\* Document.change_rgbs_clims(clims, layers) for a list of uuids
RECURSIVE change_rgbs_clims_loop(_, _, _, _)
change_rgbs_clims_loop(d, clims, layers, changed) ==
    IF layers = <<>> THEN Emit(d, [sig |-> "didChangeColorLimits", changed |-> changed])
    ELSE LET u == Head(layers)
         IN IF u \notin DOMAIN d.lw THEN Raise(d, "KeyError")
            ELSE IF d.lw[u].kind # "RGB" \/ d.lw[u].clim = clims
            THEN change_rgbs_clims_loop(d, clims, Tail(layers), changed)
            ELSE change_rgbs_clims_loop([d EXCEPT !.lw[u].clim = clims], clims,
                                        Tail(layers), Put(changed, u, clims))

change_rgbs_clims(d, clims, layers) == change_rgbs_clims_loop(d, clims, layers, <<>>)

\* DocRGBLayer.update_metadata_from_dependencies: a cleared color-limit pair is
\* taken from the channel's own layer
update_metadata_from_dependencies(d, layer) ==
    [layer EXCEPT !.clim = [i \in 1..3 |->
        IF layer.clim[i] = None /\ Channel(layer, Channels[i]) # None
        THEN Some(d.lw[Val(Channel(layer, Channels[i]))].clim)
        ELSE layer.clim[i]]]

\* the loop of change_rgb_component_layer clearing the color limits of every
\* channel it is given
RECURSIVE assign_channels_loop_clear_all(_, _, _)
assign_channels_loop_clear_all(layer, rgba, ks) ==
    IF ks = <<>> THEN layer
    ELSE LET k == Head(ks)
             idx == CHOOSE i \in 1..3 : Channels[i] = k
         IN IF k \notin DOMAIN rgba
            THEN assign_channels_loop_clear_all(layer, rgba, Tail(ks))
            ELSE assign_channels_loop_clear_all(
                    [SetChannel(layer, k, Some(rgba[k])) EXCEPT !.clim[idx] = None],
                    rgba, Tail(ks))

\* the loop of change_rgb_component_layer over rgba.items(); rgba maps a
\* channel name to the uuid of the layer assigned to it
RECURSIVE assign_channels_loop(_, _, _)
assign_channels_loop(layer, rgba, ks) ==
    IF ks = <<>> THEN layer
    ELSE LET k == Head(ks)
             idx == CHOOSE i \in 1..3 : Channels[i] = k
         IN IF k \notin DOMAIN rgba \/ Channel(layer, k) = Some(rgba[k])
            THEN assign_channels_loop(layer, rgba, Tail(ks))
            ELSE assign_channels_loop(
                    [SetChannel(layer, k, Some(rgba[k])) EXCEPT !.clim[idx] = None],
                    rgba, Tail(ks))

\* Document.change_rgb_component_layer and Document._propagate_matched_rgb_components.
\* depth 0 is the call that may propagate, depth 1 a call made for a sibling.
RECURSIVE change_rgb_component_layer(_, _, _, _)
RECURSIVE propagate_matched_rgb_components(_, _, _, _)

\* Document._propagate_matched_rgb_components letting each sibling propagate in turn
propagate_matched_rgb_components_deep(d, master, sibling_layers, did_change) ==
    IF sibling_layers = <<>> \/ d.err # "none" THEN [d |-> d, did_change |-> did_change]
    ELSE
    LET sibling == Head(sibling_layers)
        rest == Tail(sibling_layers)
    IN
    IF sibling \notin DOMAIN d.lw THEN [d |-> Raise(d, "KeyError"), did_change |-> did_change]
    ELSE IF sibling = master
    THEN propagate_matched_rgb_components(d, master, rest, did_change)
    ELSE
    LET mband == band(d, master)
        sband == band(d, sibling)
        differ == {i \in 1..3 : mband[i] # sband[i]}
        want(i) == building_block(d, platform_instrument(d, master),
                                  sched_time(d, sibling), mband[i])
    IN
    IF \E i \in differ : want(i) = None
    THEN \* self._layer_with_uuid[None]
         [d |-> Raise(d, "KeyError"), did_change |-> did_change]
    ELSE IF differ = {}
    THEN propagate_matched_rgb_components(d, master, rest, did_change)
    ELSE
    LET change_these == [k \in {Channels[i] : i \in differ} |->
                            Val(want(CHOOSE i \in differ : Channels[i] = k))]
        d1 == change_rgb_component_layer(d, sibling, TRUE, change_these)
    IN propagate_matched_rgb_components(d1, master, rest, Append(did_change, sibling))

\* Document._propagate_matched_rgb_components looking for images of the master's time
propagate_matched_rgb_components_master_time(d, master, sibling_layers, did_change) ==
    IF sibling_layers = <<>> \/ d.err # "none" THEN [d |-> d, did_change |-> did_change]
    ELSE
    LET sibling == Head(sibling_layers)
        rest == Tail(sibling_layers)
    IN
    IF sibling \notin DOMAIN d.lw THEN [d |-> Raise(d, "KeyError"), did_change |-> did_change]
    ELSE IF sibling = master
    THEN propagate_matched_rgb_components(d, master, rest, did_change)
    ELSE
    LET mband == band(d, master)
        sband == band(d, sibling)
        differ == {i \in 1..3 : mband[i] # sband[i]}
        want(i) == building_block(d, platform_instrument(d, master),
                                  sched_time(d, master), mband[i])
    IN
    IF \E i \in differ : want(i) = None
    THEN \* self._layer_with_uuid[None]
         [d |-> Raise(d, "KeyError"), did_change |-> did_change]
    ELSE IF differ = {}
    THEN propagate_matched_rgb_components(d, master, rest, did_change)
    ELSE
    LET change_these == [k \in {Channels[i] : i \in differ} |->
                            Val(want(CHOOSE i \in differ : Channels[i] = k))]
        d1 == change_rgb_component_layer(d, sibling, FALSE, change_these)
    IN propagate_matched_rgb_components(d1, master, rest, Append(did_change, sibling))

propagate_matched_rgb_components(d, master, sibling_layers, did_change) ==
    IF sibling_layers = <<>> \/ d.err # "none" THEN [d |-> d, did_change |-> did_change]
    ELSE
    LET sibling == Head(sibling_layers)
        rest == Tail(sibling_layers)
    IN
    IF sibling \notin DOMAIN d.lw THEN [d |-> Raise(d, "KeyError"), did_change |-> did_change]
    ELSE IF sibling = master
    THEN propagate_matched_rgb_components(d, master, rest, did_change)
    ELSE
    LET mband == band(d, master)
        sband == band(d, sibling)
        differ == {i \in 1..3 : mband[i] # sband[i]}
        want(i) == building_block(d, platform_instrument(d, master),
                                  sched_time(d, sibling), mband[i])
    IN
    IF \E i \in differ : want(i) = None
    THEN \* self._layer_with_uuid[None]
         [d |-> Raise(d, "KeyError"), did_change |-> did_change]
    ELSE IF differ = {}
    THEN propagate_matched_rgb_components(d, master, rest, did_change)
    ELSE
    LET change_these == [k \in {Channels[i] : i \in differ} |->
                            Val(want(CHOOSE i \in differ : Channels[i] = k))]
        d1 == change_rgb_component_layer(d, sibling, FALSE, change_these)
    IN propagate_matched_rgb_components(d1, master, rest, Append(did_change, sibling))

\* Document.change_rgb_component_layer going on although nothing changed
change_rgb_component_layer_always(d0, uuid, propagate_to_siblings, rgba) ==
    LET d == Enter(d0, propagate_to_siblings)
    IN Leave(
        IF DOMAIN rgba = {} THEN d
        ELSE
        LET layer == d.lw[uuid]
            siblings == IF propagate_to_siblings THEN rgb_layer_siblings_uuids(d, uuid) ELSE <<>>
            assigned == assign_channels_loop(layer, rgba, Channels)
            d1 == [d EXCEPT !.lw[uuid] = update_metadata_from_dependencies(d, assigned)]
            L == d1.hp[current_layer_set(d1)]
            found == {i \in DOMAIN L.store : L.store[i].uuid = uuid}
        IN
        IF Cardinality(found) # 1
        THEN Raise(d1, "ValueError")
        ELSE
        LET d2 == Emit(d1, [sig |-> "didChangeComposition", uuid |-> uuid,
                            prez |-> L.store[CHOOSE i \in found : TRUE], rgba |-> rgba])
            p == IF propagate_to_siblings
                 THEN propagate_matched_rgb_components(d2, uuid, siblings, <<>>)
                 ELSE [d |-> d2, did_change |-> <<>>]
        IN IF p.d.err # "none" THEN p.d
           ELSE change_rgbs_clims(p.d, p.d.lw[uuid].clim, <<uuid>> \o p.did_change))

change_rgb_component_layer(d0, uuid, propagate_to_siblings, rgba) ==
    LET d == Enter(d0, propagate_to_siblings)
    IN Leave(
        IF DOMAIN rgba = {} THEN d
        ELSE
        LET layer == d.lw[uuid]
            siblings == IF propagate_to_siblings THEN rgb_layer_siblings_uuids(d, uuid) ELSE <<>>
            assigned == assign_channels_loop(layer, rgba, Channels)
        IN
        IF assigned = layer THEN d       \* not changed
        ELSE
        LET d1 == [d EXCEPT !.lw[uuid] = update_metadata_from_dependencies(d, assigned)]
            L == d1.hp[current_layer_set(d1)]
            found == {i \in DOMAIN L.store : L.store[i].uuid = uuid}
        IN
        IF Cardinality(found) # 1
        THEN Raise(d1, "ValueError")     \* prez, = self.prez_for_uuids([layer.uuid])
        ELSE
        LET d2 == Emit(d1, [sig |-> "didChangeComposition", uuid |-> uuid,
                            prez |-> L.store[CHOOSE i \in found : TRUE], rgba |-> rgba])
            p == IF propagate_to_siblings
                 THEN propagate_matched_rgb_components(d2, uuid, siblings, <<>>)
                 ELSE [d |-> d2, did_change |-> <<>>]
        IN IF p.d.err # "none" THEN p.d
           ELSE change_rgbs_clims(p.d, p.d.lw[uuid].clim, <<uuid>> \o p.did_change))

\* Document.create_rgb_composite(r, g, b) with clim=None; r, g, b are uuids or None
create_rgb_composite(d, r, g, b) ==
    LET uuid == uuidgen(d.gen + 1)
        d1 == [d EXCEPT !.gen = @ + 1, !.lw = Put(@, uuid, DocRGBLayer)]
        d2 == insert_layer_with_info(d1, uuid, None, 0)
        presentation == prez(uuid, "RGB", TRUE, None, None, DocRGBLayer.clim)
        d3 == Emit(d2, [sig |-> "didAddCompositeLayer", order |-> reordered_indices(d1),
                        uuid |-> uuid, prez |-> presentation])
        given == <<r, g, b>>
        chosen == {i \in 1..3 : given[i] # None}
        color_assignments == [k \in {Channels[i] : i \in chosen} |->
                                 Val(given[CHOOSE i \in chosen : Channels[i] = k])]
    IN
    IF \E i \in chosen : Val(given[i]) \notin DOMAIN d3.lw
    THEN Raise(d3, "KeyError")       \* self._layer_with_uuid[lyr]
    ELSE IF chosen = {} THEN d3
    ELSE
    LET d4 == change_rgb_component_layer(d3, uuid, TRUE, color_assignments)
        RECURSIVE selectors(_)
        selectors(i) == IF i > 3 THEN <<>>
                        ELSE (IF given[i] = None THEN <<>> ELSE <<Uuid(Val(given[i]))>>)
                                 \o selectors(i + 1)
    IN IF d4.err # "none" THEN d4
       ELSE toggle_layer_visibility(d4, selectors(1), Some(FALSE))

\* ------------------------------------------------------------- time steps
\* AHI_HSF_Guidebook.time_siblings: the images of the same platform, instrument
\* and band as uuid, in time order
time_siblings(d, uuid) ==
    SortedByTime(d, {u \in directory_of_layers(d, "IMAGE") :
                        /\ platform_instrument(d, u) = platform_instrument(d, uuid)
                        /\ band(d, u) = band(d, uuid)})

\* list.index(x) as a 0-based position
ListIndex(seq, x) == (CHOOSE i \in DOMAIN seq : seq[i] = x) - 1

\* del seq[dex] for a 0-based position
DelItem(seq, dex) ==
    [i \in 1..(Len(seq) - 1) |-> IF i <= dex THEN seq[i] ELSE seq[i + 1]]

\* a list of identifiers as selectors
Uuids(seq) == [i \in DOMAIN seq |-> Uuid(seq[i])]

\* next_last_step with the old focus hidden in place of the other siblings
next_last_step_hide_focus(d, uuid, delta) ==
    IF uuid \notin DOMAIN d.lw THEN [d |-> Raise(d, "KeyError"), returned |-> None]
    ELSE
    LET sibs == IF d.lw[uuid].kind = "RGB" THEN rgb_layer_siblings_uuids(d, uuid)
                ELSE time_siblings(d, uuid)
        dex == (ListIndex(sibs, uuid) + delta + Len(sibs)) % Len(sibs)
        d1 == toggle_layer_visibility(d, <<Uuid(uuid)>>, Some(FALSE))
    IN [d |-> IF d1.err # "none" THEN d1
              ELSE toggle_layer_visibility(d1, <<Uuid(sibs[dex + 1])>>, Some(TRUE)),
        returned |-> Some(sibs[dex + 1])]

\* hide the rest of the siblings, if there are any, and show the new focus
show_only(d, sibs, new_focus) ==
    IF d.err # "none" THEN d
    ELSE toggle_layer_visibility(
             IF sibs # <<>> THEN toggle_layer_visibility(d, Uuids(sibs), Some(FALSE)) ELSE d,
             <<Uuid(new_focus)>>, Some(TRUE))

\* Document.next_last_step with bandwise=False; the document after the call and
\* the identifier returned
next_last_step(d, uuid, delta) ==
    IF uuid \notin DOMAIN d.lw THEN [d |-> Raise(d, "KeyError"), returned |-> None]
    ELSE
    LET sibs == IF d.lw[uuid].kind = "RGB" THEN rgb_layer_siblings_uuids(d, uuid)
                ELSE time_siblings(d, uuid)
    IN
    IF sibs = <<>>
    THEN [d |-> toggle_layer_visibility(d, <<Uuid(uuid)>>, Some(TRUE)), returned |-> Some(uuid)]
    ELSE
    LET dex == (ListIndex(sibs, uuid) + delta + Len(sibs)) % Len(sibs)
    IN [d |-> show_only(d, DelItem(sibs, dex), sibs[dex + 1]),
        returned |-> Some(sibs[dex + 1])]

\* ------------------------------------------------------------- animation loop
\* a set of integers as the list sorted in descending order
RECURSIVE SortedDescending(_)
SortedDescending(S) ==
    IF S = {} THEN <<>>
    ELSE LET top == CHOOSE x \in S : \A y \in S : y <= x
         IN <<top>> \o SortedDescending(S \ {top})

\* a list of (time, uuid) pairs as list.sort() leaves it
RECURSIVE SortedPairs(_)
SortedPairs(pairs) ==
    IF pairs = <<>> THEN <<>>
    ELSE LET Less(p, q) == p[1] < q[1] \/ (p[1] = q[1] /\ p[2] <= q[2])
             i == CHOOSE i \in DOMAIN pairs : \A j \in DOMAIN pairs : Less(pairs[i], pairs[j])
         IN <<pairs[i]>> \o SortedPairs([j \in 1..(Len(pairs) - 1) |->
                                             IF j < i THEN pairs[j] ELSE pairs[j + 1]])

\* already_have.get((plat, inst, step, band), None) over the composites; where
\* several composites have the key, the dict holds the one its construction
\* met last, which is prefer if that is one of them
already_have(d, plat_inst, step, bnd, prefer) ==
    LET hits == {u \in directory_of_layers(d, "RGB") :
                    layer_key(d, u) = <<plat_inst, Some(step), bnd>>}
    IN IF hits = {} THEN None
       ELSE IF prefer \in hits THEN Some(prefer)
       ELSE Some(CHOOSE u \in hits : \A v \in hits : v <= u)

\* the loop of loop_rgb_layers_following over loaded_timesteps: what is already
\* there goes into the sequence, what can be built goes into to_build
RECURSIVE plan_loop(_, _, _, _, _)
plan_loop(d, master, steps, prefer, acc) ==
    IF steps = <<>> THEN acc
    ELSE
    LET step == Head(steps)
        plat_inst == platform_instrument(d, master)
        mband == band(d, master)
        preexisting_layer_uuid == already_have(d, plat_inst, step, mband, prefer)
        r == building_block(d, plat_inst, Some(step), mband[1])
        g == building_block(d, plat_inst, Some(step), mband[2])
        b == building_block(d, plat_inst, Some(step), mband[3])
    IN
    IF Some(step) = sched_time(d, master)
    THEN plan_loop(d, master, Tail(steps), prefer, acc)
    ELSE IF preexisting_layer_uuid # None
    THEN plan_loop(d, master, Tail(steps), prefer,
                   [acc EXCEPT !.sequence = Append(@, <<step, Val(preexisting_layer_uuid)>>)])
    ELSE IF r # None /\ g # None /\ b # None
    THEN plan_loop(d, master, Tail(steps), prefer,
                   [acc EXCEPT !.to_build = Append(@, [when |-> step, r |-> r, g |-> g, b |-> b]),
                               !.to_make_invisible = @ \cup {Val(r), Val(g), Val(b)}])
    ELSE plan_loop(d, master, Tail(steps), prefer, acc)

\* the loop of loop_rgb_layers_following over to_build
RECURSIVE build_loop(_, _, _)
build_loop(d, to_build, sequence) ==
    IF to_build = <<>> \/ d.err # "none" THEN [d |-> d, sequence |-> sequence]
    ELSE LET job == Head(to_build)
             new_layer == uuidgen(d.gen + 1)
         IN build_loop(create_rgb_composite(d, job.r, job.g, job.b), Tail(to_build),
                       Append(sequence, <<job.when, new_layer>>))

\* a set of identifiers as selectors, in ascending order
RECURSIVE UuidSelectors(_)
UuidSelectors(S) ==
    IF S = {} THEN <<>>
    ELSE LET u == CHOOSE x \in S : \A y \in S : x <= y
         IN <<Uuid(u)>> \o UuidSelectors(S \ {u})

\* loop_rgb_layers_following, lines 1017-1022: the composites that are missing
loop_create_additional_layers(d, plan, create_additional_layers) ==
    IF create_additional_layers
    THEN build_loop(d, plan.to_build, plan.sequence)
    ELSE [d |-> d, sequence |-> plan.sequence]

\* a loop that leaves the color limits of the sequence alone
loop_keep_color_limits(d, rgb_uuid, sequence, force_color_limits) == d

\* loop_rgb_layers_following, lines 1024-1025: the master's limits for the sequence
loop_force_color_limits(d, rgb_uuid, sequence, force_color_limits) ==
    IF d.err = "none" /\ force_color_limits
    THEN change_rgbs_clims(d, d.lw[rgb_uuid].clim,
                           [i \in DOMAIN sequence |-> sequence[i][2]])
    ELSE d

\* loop_rgb_layers_following, lines 1027-1030: the images that were planned as
\* components are hidden
loop_make_invisible(d, to_make_invisible, make_contributing_layers_invisible) ==
    IF d.err = "none" /\ make_contributing_layers_invisible
    THEN toggle_layer_visibility(d, UuidSelectors(to_make_invisible), Some(FALSE))
    ELSE d

\* the identifiers of a sequence after sequence.sort()
new_anim_order(sequence) ==
    [i \in DOMAIN sequence |-> SortedPairs(sequence)[i][2]]

\* an emit that an exception before it skips
EmitUnlessRaised(d, event) == IF d.err = "none" THEN Emit(d, event) ELSE d

\* a reordering that leaves sequence.sort() out
loop_reorder_unsorted(d, sequence) ==
    IF d.err # "none" THEN d
    ELSE EmitUnlessRaised(set_current_animation_order(d, [i \in DOMAIN sequence |-> sequence[i][2]]),
                          [sig |-> "didReorderAnimation",
                           order |-> [i \in DOMAIN sequence |-> sequence[i][2]]])

\* loop_rgb_layers_following, lines 1033-1036: the sequence becomes the
\* animation order
loop_reorder(d, sequence) ==
    IF d.err # "none" THEN d
    ELSE EmitUnlessRaised(set_current_animation_order(d, new_anim_order(sequence)),
                          [sig |-> "didReorderAnimation", order |-> new_anim_order(sequence)])

\* loop_rgb_layers_following from line 1017 on, with the plan of the first loop
loop_carry_out(built, rgb_uuid, to_make_invisible, force_color_limits, make_contributing_layers_invisible) ==
    loop_reorder(
        loop_make_invisible(
            loop_force_color_limits(built.d, rgb_uuid, built.sequence, force_color_limits),
            to_make_invisible, make_contributing_layers_invisible),
        built.sequence)

\* loop_rgb_layers_following from line 981 on
loop_planned(d, rgb_uuid, plan, create_additional_layers, force_color_limits, make_contributing_layers_invisible) ==
    loop_carry_out(loop_create_additional_layers(d, plan, create_additional_layers),
                   rgb_uuid, plan.to_make_invisible, force_color_limits,
                   make_contributing_layers_invisible)

\* the time steps of all layers, latest first; where None is among them and the
\* interpreter orders it, it is left out: no composite and no image has the key
\* of such a step, so the loop over the steps passes it by
loaded_timesteps(d) ==
    SortedDescending({Val(sched_time(d, u)) : u \in {v \in DOMAIN d.lw : sched_time(d, v) # None}})

\* loop_rgb_layers_following that goes on to the reordering where the code returns
loop_rgb_layers_following_no_return(d, rgb_uuid, create_additional_layers, force_color_limits, make_contributing_layers_invisible, prefer, none_sorts) ==
    IF rgb_uuid \notin DOMAIN d.lw THEN Raise(d, "KeyError")
    ELSE IF d.lw[rgb_uuid].kind # "RGB" \/ sched_time(d, rgb_uuid) = None
    THEN loop_reorder(d, <<>>)
    ELSE IF ~none_sorts /\ \E u \in DOMAIN d.lw : sched_time(d, u) = None
    THEN Raise(d, "TypeError")
    ELSE loop_planned(d, rgb_uuid,
                      plan_loop(d, rgb_uuid, loaded_timesteps(d), prefer,
                                [sequence |-> << <<Val(sched_time(d, rgb_uuid)), rgb_uuid>> >>,
                                 to_build |-> <<>>, to_make_invisible |-> {}]),
                      create_additional_layers, force_color_limits,
                      make_contributing_layers_invisible)

\* Document.loop_rgb_layers_following; none_sorts says whether the interpreter
\* orders None among the time steps (as Python 2 does) or raises (as Python 3)
loop_rgb_layers_following(d, rgb_uuid, create_additional_layers, force_color_limits, make_contributing_layers_invisible, prefer, none_sorts) ==
    IF rgb_uuid \notin DOMAIN d.lw THEN Raise(d, "KeyError")
    ELSE IF d.lw[rgb_uuid].kind # "RGB" THEN d
    ELSE IF sched_time(d, rgb_uuid) = None THEN d
    ELSE IF ~none_sorts /\ \E u \in DOMAIN d.lw : sched_time(d, u) = None
    THEN Raise(d, "TypeError")           \* sorted() of None and a time
    ELSE loop_planned(d, rgb_uuid,
                      plan_loop(d, rgb_uuid, loaded_timesteps(d), prefer,
                                [sequence |-> << <<Val(sched_time(d, rgb_uuid)), rgb_uuid>> >>,
                                 to_build |-> <<>>, to_make_invisible |-> {}]),
                      create_additional_layers, force_color_limits,
                      make_contributing_layers_invisible)

\* ------------------------------------------------------------- colormaps
\* the loop of change_colormap_for_layers over the rows of the current set
RECURSIVE change_colormap_loop(_, _, _, _)
change_colormap_loop(d, name, dex, nfo) ==
    LET ref == current_layer_set(d)
    IN IF dex >= Len(d.hp[ref].store)
       THEN Emit(d, [sig |-> "didChangeColormap", nfo |-> nfo])
       ELSE LET pinfo == d.hp[ref].store[dex + 1]
                d1 == [d EXCEPT !.hp[ref] =
                          DocLayerStack_setitem(@, dex, [pinfo EXCEPT !.colormap = Some(name)])]
            IN change_colormap_loop(d1, name, dex + 1, Put(nfo, pinfo.uuid, name))

\* Document.change_colormap_for_layers(name) with uuids=None: all layers of the
\* current set
change_colormap_for_layers(d, name) == change_colormap_loop(d, name, 0, <<>>)

\* ------------------------------------------------------------- actions
\* the document after a method ran, with what the method emitted and raised
Commit(d) ==
    /\ layer_with_uuid' = d.lw
    /\ layer_sets' = d.ls
    /\ heap' = d.hp
    /\ current_set_index' = d.cur
    /\ generated' = d.gen
    /\ signals' = d.tr
    /\ err' = d.err
    /\ calls' = d.calls

\* Document(workspace, layer_set_count)
Init ==
    \E layer_set_count \in 1..MaxSets :
        /\ layer_with_uuid = <<>>
        /\ layer_sets = <<Some(0)>> \o [i \in 1..(layer_set_count - 1) |-> None]
        /\ heap = [ref \in Refs |-> IF ref = 0 THEN DocLayerStack(<<>>) ELSE NoObject]
        /\ current_set_index = 0
        /\ generated = 0
        /\ op = [name |-> "__init__"]
        /\ err = "none"
        /\ signals = <<>>
        /\ calls = <<>>

\* ---- inputs
Selectors == {Row(n) : n \in 0..MaxLayers} \cup {Uuid(u) : u \in UUIDs}

Visibilities == {None, Some(TRUE), Some(FALSE)}

\* the permutations of 0..n-1, as tuples
PermutationsOf(n) ==
    {f \in [1..n -> 0..(n - 1)] : \A i, j \in 1..n : f[i] = f[j] => i = j}

\* the tuples without a repeated element
Distinct(S) == {f \in S : \A i, j \in DOMAIN f : f[i] = f[j] => i = j}

OptionalImages == {None} \cup {Some(u) : u \in Paths}

\* whether the catalogue has room for one more layer
Room == Cardinality(DOMAIN layer_with_uuid) < MaxLayers

OpenFile ==
    \E path \in Paths, insert_before \in 0..MaxInsertBefore, format_ok \in BOOLEAN :
        /\ import_image(path) \in DOMAIN layer_with_uuid \/ Room
        /\ op' = [name |-> "open_file", path |-> path, insert_before |-> insert_before]
        /\ Commit(open_file(Doc, path, insert_before, format_ok))

CreateRgbComposite ==
    /\ generated < MaxComposites
    /\ Room
    /\ \E r \in OptionalImages, g \in OptionalImages, b \in OptionalImages :
        /\ Cardinality({i \in 1..3 : <<r, g, b>>[i] # None}) <= MaxChannels
        /\ op' = [name |-> "create_rgb_composite", r |-> r, g |-> g, b |-> b]
        /\ Commit(create_rgb_composite(Doc, r, g, b))

\* toggle_layer_visibility(row_or_uuid, visible): one int or UUID, which the
\* method wraps in a list
ToggleLayer ==
    \E row_or_uuid \in Selectors, visible \in Visibilities :
        /\ op' = [name |-> "toggle_layer_visibility",
                  rows_or_uuids |-> <<row_or_uuid>>, visible |-> visible]
        /\ Commit(toggle_layer_visibility(Doc, <<row_or_uuid>>, visible))

\* toggle_layer_visibility(uuid): one layer given by its identifier
ToggleByUuid ==
    \E uuid \in UUIDs :
        /\ op' = [name |-> "toggle_layer_visibility",
                  rows_or_uuids |-> <<Uuid(uuid)>>, visible |-> None]
        /\ Commit(toggle_layer_visibility(Doc, <<Uuid(uuid)>>, None))

ToggleLayerVisibility ==
    \E rows_or_uuids \in SeqsOf(Selectors, 0, MaxBatch), visible \in Visibilities :
        /\ op' = [name |-> "toggle_layer_visibility",
                  rows_or_uuids |-> rows_or_uuids, visible |-> visible]
        /\ Commit(toggle_layer_visibility(Doc, rows_or_uuids, visible))

ChangeColormapForLayers ==
    \E name \in {"grays"} :
        /\ op' = [name |-> "change_colormap_for_layers", colormap |-> name]
        /\ Commit(change_colormap_for_layers(Doc, name))

RemoveLayerPrez ==
    \E row_or_uuid \in Selectors, count \in 1..MaxBatch :
        /\ row_or_uuid.t = "uuid" => count = 1
        /\ op' = [name |-> "remove_layer_prez",
                  row_or_uuid |-> row_or_uuid, count |-> count]
        /\ Commit(remove_layer_prez(Doc, row_or_uuid, count))

\* remove_layer_prez(row_or_uuid) with the default count
RemoveLayer ==
    \E row_or_uuid \in Selectors :
        /\ op' = [name |-> "remove_layer_prez", row_or_uuid |-> row_or_uuid, count |-> 1]
        /\ Commit(remove_layer_prez(Doc, row_or_uuid, 1))

\* remove_layer_prez(uuid): one layer given by its identifier
RemoveByUuid ==
    \E uuid \in UUIDs :
        /\ op' = [name |-> "remove_layer_prez", row_or_uuid |-> Uuid(uuid), count |-> 1]
        /\ Commit(remove_layer_prez(Doc, Uuid(uuid), 1))

RemoveLayersFromAllSets ==
    \E uuids \in SeqsOf(UUIDs, 1, MaxBatch) :
        /\ op' = [name |-> "remove_layers_from_all_sets", uuids |-> uuids]
        /\ Commit(remove_layers_from_all_sets(Doc, uuids))

SelectLayerSet ==
    \E layer_set_index \in -1..(MaxSets + 1) :
        /\ layer_set_index = Len(layer_sets) => Len(layer_sets) < MaxSets
        /\ op' = [name |-> "select_layer_set", layer_set_index |-> layer_set_index]
        /\ Commit(select_layer_set(Doc, layer_set_index))

ReorderByIndices ==
    LET n == Len(heap[Val(layer_sets[current_set_index + 1])].store)
    IN \E new_order \in PermutationsOf(n) \cup {[i \in 1..(n + 1) |-> i - 1]} :
        /\ op' = [name |-> "reorder_by_indices", new_order |-> new_order]
        /\ Commit(reorder_by_indices(Doc, new_order))

\* change_rgb_component_layer(layer, propagate_to_siblings, **rgba) for a
\* composite of the catalogue and image layers of the catalogue
ChangeRgbComponentLayer ==
    \E uuid \in directory_of_layers(Doc, "RGB"), propagate_to_siblings \in BOOLEAN,
       K \in SUBSET Range(Channels) :
        \E rgba \in [K -> directory_of_layers(Doc, "IMAGE")] :
            /\ op' = [name |-> "change_rgb_component_layer", uuid |-> uuid,
                      propagate_to_siblings |-> propagate_to_siblings, rgba |-> rgba]
            /\ Commit(change_rgb_component_layer(Doc, uuid, propagate_to_siblings, rgba))

\* open_file for the images of two time steps, in the loader's order of paths
\* and before any composite is made of them
OpenTimedImage ==
    \E path \in TimedPaths :
        /\ generated = 0
        /\ path \notin DOMAIN layer_with_uuid
        /\ \A other \in TimedPaths : other < path => import_image(other) \in DOMAIN layer_with_uuid
        /\ op' = [name |-> "open_file", path |-> path, insert_before |-> 0]
        /\ Commit(open_file(Doc, path, 0, TRUE))

\* the channels that siblings are given
Assignable == {Channels[i] : i \in 1..MaxAssigned}

\* create_rgb_composite() with no channel: the composite is left for the user
\* to configure
CreateSibling ==
    /\ generated < MaxSiblings
    /\ op' = [name |-> "create_rgb_composite", r |-> None, g |-> None, b |-> None]
    /\ Commit(create_rgb_composite(Doc, None, None, None))

\* change_rgb_component_layer(layer, **rgba) on the assignable channels, with
\* images of one time step and propagate_to_siblings at its default
AssignChannels ==
    \E uuid \in directory_of_layers(Doc, "RGB"), K \in SUBSET Assignable :
        \E rgba \in [K -> directory_of_layers(Doc, "IMAGE")] :
            /\ \A j, k \in K : image_sched_time(rgba[j]) = image_sched_time(rgba[k])
            /\ op' = [name |-> "change_rgb_component_layer", uuid |-> uuid,
                      propagate_to_siblings |-> TRUE, rgba |-> rgba]
            /\ Commit(change_rgb_component_layer(Doc, uuid, TRUE, rgba))

\* the images of the catalogue, each as an optional channel
OptionalLoaded == {None} \cup {Some(u) : u \in directory_of_layers(Doc, "IMAGE")}

\* create_rgb_composite(r, g, b) with loaded images or nothing in each channel
CreateComposite ==
    /\ generated < MaxSiblings
    /\ \E r \in OptionalLoaded, g \in OptionalLoaded, b \in OptionalLoaded :
        /\ op' = [name |-> "create_rgb_composite", r |-> r, g |-> g, b |-> b]
        /\ Commit(create_rgb_composite(Doc, r, g, b))

\* create_rgb_composite(x, x, x) with one loaded image in all three channels, or
\* with no channel
CreateUniformComposite ==
    /\ generated < MaxSiblings
    /\ \E x \in OptionalLoaded :
        /\ op' = [name |-> "create_rgb_composite", r |-> x, g |-> x, b |-> x]
        /\ Commit(create_rgb_composite(Doc, x, x, x))

\* next_last_step(uuid, delta) for a layer of the catalogue, one step back,
\* none, or one step on
NextLastStep ==
    \E uuid \in DOMAIN layer_with_uuid, delta \in -1..1 :
        /\ op' = [name |-> "next_last_step", uuid |-> uuid, delta |-> delta,
                  returned |-> next_last_step(Doc, uuid, delta).returned]
        /\ Commit(next_last_step(Doc, uuid, delta).d)

\* the composites that share their key with another composite
SameKeyComposites ==
    {u \in directory_of_layers(Doc, "RGB") :
        \E v \in directory_of_layers(Doc, "RGB") :
            v # u /\ layer_key(Doc, v) = layer_key(Doc, u)}

\* the masters a loop is asked of: every composite, and the first image as a
\* layer of the wrong kind
Masters ==
    {uuid \in DOMAIN layer_with_uuid :
        layer_with_uuid[uuid].kind = "RGB" \/ uuid = import_image(1)}

\* what the interpreter can do with None among the time steps, where there is one
NoneSorts ==
    IF \E uuid \in DOMAIN layer_with_uuid : sched_time(Doc, uuid) = None
    THEN BOOLEAN ELSE {FALSE}

\* loop_rgb_layers_following on a composite or an image of the catalogue
LoopRgbLayersFollowing ==
    \E rgb_uuid \in Masters,
       create_additional_layers \in BOOLEAN, force_color_limits \in BOOLEAN,
       make_contributing_layers_invisible \in BOOLEAN :
     \E prefer \in SameKeyComposites \cup {rgb_uuid}, none_sorts \in NoneSorts :
        /\ op' = [name |-> "loop_rgb_layers_following", rgb_uuid |-> rgb_uuid,
                  create_additional_layers |-> create_additional_layers,
                  force_color_limits |-> force_color_limits,
                  make_contributing_layers_invisible |-> make_contributing_layers_invisible]
        /\ Commit(loop_rgb_layers_following(Doc, rgb_uuid, create_additional_layers,
                                            force_color_limits,
                                            make_contributing_layers_invisible, prefer,
                                            none_sorts))

\* new information from the workspace about any dataset, known or not
UpdateDatasetInfo ==
    \E uuid \in UUIDs, clim \in {<<0, 1>>, <<0, 2>>} :
        /\ op' = [name |-> "update_dataset_info", uuid |-> uuid, clim |-> clim]
        /\ Commit(update_dataset_info(Doc, [uuid |-> uuid, clim |-> clim]))

\* reorder_by_indices given any list of rows, of any length
ReorderBySequence ==
    \E new_order \in SeqsOf(0..(MaxLayers - 1), 0, MaxLayers + 1) :
        /\ op' = [name |-> "reorder_by_indices", new_order |-> new_order]
        /\ Commit(reorder_by_indices(Doc, new_order))

\* the animation order set from a list of distinct identifiers, as the
\* document's own callers build it
SetAnimationOrder ==
    \E layer_or_uuid_seq \in Distinct(SeqsOf(UUIDs, 0, MaxBatch)) :
        /\ op' = [name |-> "animation_order", layer_or_uuid_seq |-> layer_or_uuid_seq]
        /\ Commit(set_current_animation_order(Doc, layer_or_uuid_seq))

\* the animation order set to the identifiers of the current set, top first
AnimateCurrentSet ==
    LET store == heap[Val(layer_sets[current_set_index + 1])].store
        layer_or_uuid_seq == [i \in DOMAIN store |-> store[i].uuid]
    IN /\ op' = [name |-> "animation_order", layer_or_uuid_seq |-> layer_or_uuid_seq]
       /\ Commit(set_current_animation_order(Doc, layer_or_uuid_seq))

\* the animation order set from any list of identifiers
SetAnimationOrderAny ==
    \E layer_or_uuid_seq \in SeqsOf(UUIDs, 0, MaxBatch) :
        /\ op' = [name |-> "animation_order", layer_or_uuid_seq |-> layer_or_uuid_seq]
        /\ Commit(set_current_animation_order(Doc, layer_or_uuid_seq))

\* ---- specifications
\* the structural operations of the document
Next ==
    \/ OpenFile
    \/ CreateRgbComposite
    \/ RemoveLayerPrez
    \/ RemoveLayersFromAllSets
    \/ SelectLayerSet
    \/ ReorderByIndices

Spec == Init /\ [][Next]_vars

\* the operations on a document whose animation order is set by its own callers
NextAnim ==
    \/ OpenFile
    \/ RemoveLayer
    \/ SelectLayerSet
    \/ ReorderByIndices
    \/ SetAnimationOrder

SpecAnim == Init /\ [][NextAnim]_vars

\* the animation order of a DocLayerStack set from any sequence
NextStack ==
    \/ OpenFile
    \/ SelectLayerSet
    \/ SetAnimationOrderAny

SpecStack == Init /\ [][NextStack]_vars

\* the operations that change entries in place
NextVis ==
    \/ OpenFile
    \/ ReorderByIndices
    \/ ToggleLayerVisibility

SpecVis == Init /\ [][NextVis]_vars

\* reordering with any argument
NextOrder ==
    \/ OpenFile
    \/ SelectLayerSet
    \/ ReorderBySequence

SpecOrder == Init /\ [][NextOrder]_vars

\* the operations that write one DocLayerStack or read its uuid-to-row cache
NextCache ==
    \/ OpenFile
    \/ RemoveLayer
    \/ ToggleLayer
    \/ SetAnimationOrderAny

SpecCache == Init /\ [][NextCache]_vars

\* dataset information arriving while layers are opened and removed
NextInfo ==
    \/ OpenFile
    \/ RemoveLayer
    \/ UpdateDatasetInfo

SpecInfo == Init /\ [][NextInfo]_vars

\* composites and the assignment of their channels
NextRgb ==
    \/ OpenFile
    \/ CreateRgbComposite
    \/ ChangeRgbComponentLayer

SpecRgb == Init /\ [][NextRgb]_vars

\* composites of two time steps whose channels are reassigned
NextSiblings ==
    \/ OpenTimedImage
    \/ CreateSibling
    \/ AssignChannels

\* Document(workspace) with the default layer_set_count
InitDefault == Init /\ Len(layer_sets) = 1

SpecSiblings == InitDefault /\ [][NextSiblings]_vars

\* composites created from the images of two time steps
NextCompose ==
    \/ OpenTimedImage
    \/ CreateComposite

SpecCompose == InitDefault /\ [][NextCompose]_vars

\* the operations that address a layer set by identifier or clone it, after
\* reorder_by_indices
NextReordered ==
    \/ OpenFile
    \/ ReorderByIndices
    \/ ToggleByUuid
    \/ AnimateCurrentSet
    \/ RemoveByUuid
    \/ SelectLayerSet

SpecReordered == InitDefault /\ [][NextReordered]_vars

\* stepping through the images and composites of two time steps
NextStep ==
    \/ OpenTimedImage
    \/ CreateUniformComposite
    \/ NextLastStep

SpecStep == InitDefault /\ [][NextStep]_vars

\* composites of two time steps made into an animation loop
NextLoop ==
    \/ OpenTimedImage
    \/ CreateUniformComposite
    \/ LoopRgbLayersFollowing

SpecLoop == InitDefault /\ [][NextLoop]_vars

\* cloned layer sets and the operations that change entries in place
NextClone ==
    \/ OpenFile
    \/ SelectLayerSet
    \/ ToggleLayer
    \/ ChangeColormapForLayers

SpecClone == Init /\ [][NextClone]_vars

\* ------------------------------------------------------------- properties
Slots == 0..(Len(layer_sets) - 1)

PopulatedSlots == {dex \in Slots : layer_sets[dex + 1] # None}

\* the entries of the populated slot dex
Store(dex) == heap[Val(layer_sets[dex + 1])].store

\* the entries of slot dex, or None for a slot not yet populated
SlotEntries(dex) == IF layer_sets[dex + 1] = None THEN None ELSE Some(Store(dex))

\* whether the populated slot dex holds an entry for uuid
Holds(dex, uuid) == \E i \in DOMAIN Store(dex) : Store(dex)[i].uuid = uuid

\* the non-null a_order values of a list of entries are exactly 0..k-1
Contiguous(store) ==
    LET A == {i \in DOMAIN store : store[i].a_order # None}
    IN {Val(store[i].a_order) : i \in A} = 0..(Cardinality(A) - 1)

NoDuplicates(store) ==
    \A i, j \in DOMAIN store : store[i].uuid = store[j].uuid => i = j

\* the last call was open_file and it added a layer
OpenedNew == op.name = "open_file" /\ signals # <<>>

\* C1: in every reachable state an identifier is in the catalogue if and only
\* if at least one populated layer set holds a presentation entry for it.
C1_CatalogueIffHeld ==
    \A u \in UUIDs :
        u \in DOMAIN layer_with_uuid <=> \E dex \in PopulatedSlots : Holds(dex, u)

\* C2: in every reachable state, in every populated layer set, the non-null
\* a_order values are exactly 0..k-1 for some k, also after a later open,
\* remove, reorder or select_layer_set.
C2_AnimationOrderContiguous ==
    \A dex \in PopulatedSlots : Contiguous(Store(dex))

\* C3: immediately after the animation order of a layer set was set from a
\* sequence of identifiers, repeated ones included, the entries with a non-null
\* a_order map bijectively onto 0..k-1.
C3_SetterBijective ==
    (op.name = "animation_order" /\ err = "none")
        => Contiguous(Store(current_set_index))

C5_ReopenStep ==
    (op'.name = "open_file" /\ import_image(op'.path) \in DOMAIN layer_with_uuid)
        => /\ layer_with_uuid' = layer_with_uuid
           /\ Len(layer_sets') = Len(layer_sets)
           /\ \A dex \in Slots : SlotEntries(dex)' = SlotEntries(dex)
           /\ \A i \in DOMAIN signals' : signals'[i].sig # "didAddBasicLayer"

\* C5: open_file with a path whose identifier is already in the catalogue
\* leaves the catalogue and every layer set unchanged and emits no layer-added
\* notification.
C5_ReopenUnchanged == [][C5_ReopenStep]_vars

\* open_file returned early for a layer that the current set holds
C5_Reopened ==
    /\ op.name = "open_file"
    /\ err = "none"
    /\ signals = <<>>
    /\ Holds(current_set_index, import_image(op.path))

C6_OpenStep ==
    (/\ op'.name = "open_file"
     /\ op'.insert_before = 0
     /\ import_image(op'.path) \notin DOMAIN layer_with_uuid)
        => LET old == Store(current_set_index)
               new == Store(current_set_index)'
           IN /\ current_set_index' = current_set_index
              /\ Len(new) = Len(old) + 1
              /\ new[1].uuid = import_image(op'.path)
              /\ new[1].visible = TRUE
              /\ new[1].a_order = None
              /\ SubSeq(new, 2, Len(new)) = old

\* C6: after open_file of a new layer (insert_before left at 0) the current set
\* has the new entry at index 0, visible and with a null a_order, and the
\* entries it had before follow unchanged in their order.
C6_NewEntryOnTop == [][C6_OpenStep]_vars

\* L1 then L2 were opened: the current set is [L2, L1], both visible
C6_OpenedTwo ==
    /\ OpenedNew
    /\ op.insert_before = 0
    /\ Len(Store(current_set_index)) = 2
    /\ Store(current_set_index)[1].uuid = import_image(op.path)
    /\ Store(current_set_index)[1].visible
    /\ Store(current_set_index)[2].visible

C7_OpenStep ==
    (op'.name = "open_file" /\ import_image(op'.path) \notin DOMAIN layer_with_uuid)
        => /\ Len(layer_sets') = Len(layer_sets)
           /\ \A dex \in Slots :
                IF layer_sets[dex + 1] = None
                THEN layer_sets'[dex + 1] = None
                ELSE LET new == Store(dex)'
                         mine == {i \in DOMAIN new : new[i].uuid = import_image(op'.path)}
                     IN /\ mine # {}
                        /\ \A i \in mine : new[i].visible = (dex = current_set_index)
                        /\ op'.insert_before = 0 => 1 \in mine

\* C7: when a new layer is opened every populated set other than the current
\* one gets an entry for it (at index 0 for insert_before 0) with visible
\* false, only the current set shows it, and slots that are None stay None.
C7_OtherSetsInvisible == [][C7_OpenStep]_vars

\* a new layer was opened while a second set was populated
C7_OpenedWithTwoSets ==
    /\ OpenedNew
    /\ op.insert_before = 0
    /\ \E dex \in PopulatedSlots \ {current_set_index} :
        /\ Store(dex)[1].uuid = import_image(op.path)
        /\ ~Store(dex)[1].visible
    /\ Store(current_set_index)[1].visible

C8_InPlaceStep ==
    (op'.name \in {"toggle_layer_visibility", "change_colormap_for_layers"})
        => \A dex \in Slots \ {current_set_index} : SlotEntries(dex)' = SlotEntries(dex)

\* C8: after select_layer_set cloned the current set into an empty slot,
\* toggle_layer_visibility and the other in-place changes made in the new set
\* leave the entries of the set it was cloned from unchanged.
C8_CloneIndependent == [][C8_InPlaceStep]_vars

\* a toggle in the cloned set made it differ from its source
C8_CloneDiverged ==
    /\ op.name = "toggle_layer_visibility"
    /\ err = "none"
    /\ current_set_index = 1
    /\ layer_sets[1] # None
    /\ Len(Store(0)) >= 1
    /\ Len(Store(0)) = Len(Store(1))
    /\ \A i \in DOMAIN Store(0) : Store(0)[i].uuid = Store(1)[i].uuid
    /\ \E i \in DOMAIN Store(0) : Store(0)[i].visible # Store(1)[i].visible

\* every row and identifier the last toggle call was given is in the current set
TargetsPresent ==
    \A n \in DOMAIN op.rows_or_uuids :
        LET k == op.rows_or_uuids[n]
        IN IF k.t = "row" THEN k.v < Len(Store(current_set_index))
           ELSE Holds(current_set_index, k.v)

\* the identifiers that call targeted
TargetedIds ==
    {IF op.rows_or_uuids[n].t = "uuid" THEN op.rows_or_uuids[n].v
     ELSE Store(current_set_index)[op.rows_or_uuids[n].v + 1].uuid :
        n \in DOMAIN op.rows_or_uuids}

\* C9: toggle_layer_visibility on rows or identifiers of the current set emits
\* the visibility-changed notification exactly once, and its payload maps every
\* targeted identifier to the visibility its entry has after the call.
C9_ToggleNotifiesOnce ==
    (op.name = "toggle_layer_visibility" /\ TargetsPresent)
        => /\ Len(signals) = 1
           /\ signals[1].sig = "didChangeLayerVisibility"
           /\ DOMAIN signals[1].zult = TargetedIds
           /\ \A i \in DOMAIN Store(current_set_index) :
                Store(current_set_index)[i].uuid \in TargetedIds
                    => signals[1].zult[Store(current_set_index)[i].uuid]
                           = Store(current_set_index)[i].visible

C10_RemoveStep ==
    (/\ op'.name = "remove_layer_prez"
     /\ op'.row_or_uuid = Row(0)
     /\ op'.count = 1
     /\ Len(layer_sets) = 1
     /\ Len(Store(0)) = 1)
        => LET u == Store(0)[1].uuid
               At(sig) == {i \in DOMAIN signals' :
                              signals'[i].sig = sig /\ signals'[i].uuid = u}
           IN /\ err' = "none"
              /\ u \notin DOMAIN layer_with_uuid'
              /\ \E i \in At("willPurgeLayer") :
                    /\ signals'[i].in_catalogue
                    /\ \A j \in At("del _layer_with_uuid") \cup At("workspace.remove") : i < j

\* C10: remove_layer_prez(0, 1) on a document whose only layer set holds one
\* identifier succeeds, purges it from the catalogue, and emits willPurgeLayer
\* before the identifier leaves the catalogue and before workspace.remove.
C10_RemoveRowPurges == [][C10_RemoveStep]_vars

\* the place of an emitted event in the order visibility, removal, purge
EventRank(ev) ==
    CASE ev.sig = "didChangeLayerVisibility" -> 1
      [] ev.sig = "didRemoveLayers" -> 2
      [] OTHER -> 3

C11_RemoveStep ==
    (op'.name = "remove_layer_prez")
        => LET S == signals'
           IN /\ \A i, j \in DOMAIN S : i < j => EventRank(S[i]) <= EventRank(S[j])
              /\ err' = "none"
                    => /\ Len(S) >= 2
                       /\ EventRank(S[1]) = 1
                       /\ EventRank(S[2]) = 2
                       /\ \A i \in DOMAIN S : i > 2 => EventRank(S[i]) = 3
                       /\ DOMAIN S[1].zult = Range(S[2].uuids)
                       /\ \A u \in Range(S[2].uuids) :
                            /\ S[1].zult[u] = FALSE
                            /\ ~Holds(current_set_index, u)'
                       /\ Len(Store(current_set_index)')
                            = Len(Store(current_set_index)) - Len(S[2].uuids)

\* C11: within one remove_layer_prez call the targeted entries are first forced
\* invisible and didChangeLayerVisibility is emitted, then the entries are
\* deleted and didRemoveLayers is emitted, and only then willPurgeLayer.
C11_RemoveEventOrder == [][C11_RemoveStep]_vars

\* a removal that went through all three stages
C11_RemovedAndPurged ==
    /\ op.name = "remove_layer_prez"
    /\ err = "none"
    /\ Len(signals) >= 3
    /\ signals[1].sig = "didChangeLayerVisibility"
    /\ signals[2].sig = "didRemoveLayers"
    /\ signals[3].sig = "willPurgeLayer"

\* the events of the last call that belong to purging uuid
PurgeEventsOf(S, uuid) ==
    {i \in DOMAIN S : /\ S[i].sig \in {"willPurgeLayer", "del _layer_with_uuid",
                                       "workspace.remove"}
                      /\ S[i].uuid = uuid}

C12_RemoveStep ==
    (op'.name = "remove_layer_prez" /\ err' = "none")
        => \A i \in DOMAIN signals' :
            signals'[i].sig = "didRemoveLayers"
                => \A u \in Range(signals'[i].uuids) :
                    IF \E dex \in PopulatedSlots' \ {current_set_index'} : Holds(dex, u)'
                    THEN /\ u \in DOMAIN layer_with_uuid'
                         /\ PurgeEventsOf(signals', u) = {}
                    ELSE /\ u \notin DOMAIN layer_with_uuid'
                         /\ PurgeEventsOf(signals', u) # {}

\* C12: when remove_layer_prez deletes from the current set an entry whose
\* identifier another populated layer set still holds, the layer stays in the
\* catalogue, no purge notification is emitted and workspace.remove is not
\* called; use is counted over all sets after the deletion, so an identifier no
\* set holds any more is purged.
C12_KeptWhileHeldElsewhere == [][C12_RemoveStep]_vars

\* an entry was removed from the current set while another set holds its layer
C12_RemovedButHeld ==
    /\ op.name = "remove_layer_prez"
    /\ err = "none"
    /\ Len(signals) = 2
    /\ \E u \in Range(signals[2].uuids) :
        /\ u \in DOMAIN layer_with_uuid
        /\ ~Holds(current_set_index, u)
        /\ \E dex \in PopulatedSlots \ {current_set_index} : Holds(dex, u)

C13_ReorderStep ==
    (/\ op'.name = "reorder_by_indices"
     /\ Len(op'.new_order) # Len(Store(current_set_index)))
        => /\ err' # "none"
           /\ layer_sets' = layer_sets
           /\ \A dex \in Slots : SlotEntries(dex)' = SlotEntries(dex)
           /\ signals' = <<>>

\* C13: reorder_by_indices with a new_order whose length differs from the
\* length of the current layer set fails, leaves every layer set unchanged and
\* emits no didReorderLayers.
C13_LengthMismatchFails == [][C13_ReorderStep]_vars

\* a reorder with too short and with too long a list was refused
C13_RefusedShort ==
    /\ op.name = "reorder_by_indices"
    /\ err = "AssertionError"
    /\ Len(Store(current_set_index)) = 2
    /\ Len(op.new_order) = 1

\* new_order lists each row 0..n-1 once
IsPermutation(new_order, n) ==
    /\ Len(new_order) = n
    /\ Range(new_order) = 0..(n - 1)

C14_ReorderStep ==
    (/\ op'.name = "reorder_by_indices"
     /\ IsPermutation(op'.new_order, Len(Store(current_set_index))))
        => LET old == Store(current_set_index)
               new == Store(current_set_index)'
           IN /\ err' = "none"
              /\ current_set_index' = current_set_index
              /\ Len(new) = Len(old)
              /\ \A i \in DOMAIN new : new[i] = old[op'.new_order[i] + 1]
              /\ {new[i].uuid : i \in DOMAIN new} = {old[i].uuid : i \in DOMAIN old}
              /\ Len(layer_sets') = Len(layer_sets)
              /\ \A dex \in Slots \ {current_set_index} : SlotEntries(dex)' = SlotEntries(dex)

\* C14: after reorder_by_indices with a permutation, row i of the current layer
\* set holds the entry that was at row new_order[i], with its uuid, visible,
\* a_order, colormap and climits unchanged; the identifiers of the set are the
\* same and every other layer set is as it was.
C14_ReorderPermutes == [][C14_ReorderStep]_vars

\* two entries with different visibility and animation ordinals were swapped
\* while another layer set was populated
C14_Swapped ==
    /\ op.name = "reorder_by_indices"
    /\ err = "none"
    /\ op.new_order = <<1, 0>>
    /\ Len(Store(current_set_index)) = 2
    /\ Store(current_set_index)[1].a_order # Store(current_set_index)[2].a_order
    /\ \E dex \in PopulatedSlots : dex # current_set_index

C15_SelectStep ==
    (/\ op'.name = "select_layer_set"
     /\ op'.layer_set_index \in 0..Len(layer_sets))
        => LET index == op'.layer_set_index
               appended == index = Len(layer_sets)
               empty == appended \/ layer_sets[index + 1] = None
               target == heap'[Val(layer_sets'[index + 1])]
           IN /\ err' = "none"
              /\ Len(layer_sets') = IF appended THEN Len(layer_sets) + 1 ELSE Len(layer_sets)
              /\ \A dex \in Slots \ {index} : layer_sets'[dex + 1] = layer_sets[dex + 1]
              /\ layer_sets'[index + 1] # None
              /\ empty => target.store = Store(current_set_index)
              /\ current_set_index' = index
              /\ signals' = << [sig |-> "didSwitchLayerSet", index |-> index,
                                entries |-> target.store,
                                animation |-> animation_order(target)] >>

\* C15: select_layer_set(index) with 0 <= index <= len(sets) appends one slot
\* when index = len(sets), and no slot otherwise; an empty target slot becomes a
\* copy of the current set's entries; on return current_set_index = index and
\* the one didSwitchLayerSet carries the index, the entries of the new current
\* set and its animation order.
C15_SelectClonesAndSwitches == [][C15_SelectStep]_vars

C16_SetterStep ==
    (/\ op'.name = "animation_order"
     /\ \E u \in Range(op'.layer_or_uuid_seq) : ~Holds(current_set_index, u))
        => /\ err' # "none"
           /\ \A i \in DOMAIN Store(current_set_index) :
                  Store(current_set_index)'[i].a_order = Store(current_set_index)[i].a_order

\* C16: assigning an animation order that names an identifier absent from the
\* layer set fails and leaves the a_order of every entry as it was before the
\* assignment.
C16_AbsentIdNoPartialMutation == [][C16_SetterStep]_vars

C17_InsertStep ==
    (/\ op'.name = "open_file"
     /\ import_image(op'.path) \notin DOMAIN layer_with_uuid)
        => \A dex \in PopulatedSlots :
              LET old == Store(dex)
                  new == Store(dex)'
              IN /\ op'.insert_before > Len(old)
                        => err' = "IndexError" /\ new = old
                 /\ op'.insert_before = Len(old)
                        => /\ Len(new) = Len(old) + 1
                           /\ SubSeq(new, 1, Len(old)) = old
                           /\ new[Len(new)].uuid = import_image(op'.path)

\* C17: DocLayerStack.insert(index, entry), as open_file calls it for a new
\* layer on every populated layer set, fails with IndexError and leaves the set
\* unchanged when index > length, and appends when index = length.
C17_InsertOutOfRangeFails == [][C17_InsertStep]_vars

\* the row DocLayerStack.index(uuid) returns for the object o
DocLayerStack_index(o, uuid) == Get(Val(uuid2row(o).u2r), uuid)

\* C18: on every DocLayerStack, whatever set-item, insert, delete,
\* clear_animation_order and animation-order assignments came before, a cached
\* uuid-to-row map equals the map of the entries as they are now, and
\* index(uuid) is a row whose entry has that uuid, or None when no entry has it.
C18_CacheNeverStale ==
    \A ref \in DOMAIN heap :
        heap[ref].cls = "DocLayerStack"
            => LET o == heap[ref]
               IN /\ o.u2r # None => Val(o.u2r) = BuildU2R(o.store)
                  /\ \A uuid \in UUIDs :
                        IF \E i \in DOMAIN o.store : o.store[i].uuid = uuid
                        THEN /\ DocLayerStack_index(o, uuid) # None
                             /\ o.store[Val(DocLayerStack_index(o, uuid)) + 1].uuid = uuid
                        ELSE DocLayerStack_index(o, uuid) = None

\* a cache built by a lookup is still held after the animation-order
\* assignment rewrote the entries of a two-entry set in place
C18_CacheKeptAcrossWrite ==
    /\ op.name = "animation_order"
    /\ err = "none"
    /\ LET o == heap[Val(layer_sets[current_set_index + 1])]
       IN /\ o.cls = "DocLayerStack"
          /\ o.u2r # None
          /\ Len(o.store) = 2
          /\ \E i \in DOMAIN o.store : o.store[i].a_order # None

C19_UpdateStep ==
    (/\ op'.name = "update_dataset_info"
     /\ op'.uuid \notin DOMAIN layer_with_uuid)
        => /\ err' = "none"
           /\ layer_with_uuid' = layer_with_uuid
           /\ layer_sets' = layer_sets
           /\ \A dex \in Slots : SlotEntries(dex)' = SlotEntries(dex)

\* C19: update_dataset_info for an identifier that is not, or is no longer, in
\* the catalogue raises no error and leaves the catalogue and every layer set
\* unchanged.
C19_UnknownUpdateIsNoOp == [][C19_UpdateStep]_vars

\* every channel named in rgba is already assigned the layer rgba gives it
AlreadyAssigned(layer, rgba) ==
    /\ DOMAIN rgba # {}
    /\ \A k \in DOMAIN rgba : Channel(layer, k) = Some(rgba[k])

C20_AssignStep ==
    (/\ op'.name = "change_rgb_component_layer"
     /\ AlreadyAssigned(layer_with_uuid[op'.uuid], op'.rgba))
        => /\ err' = "none"
           /\ layer_with_uuid' = layer_with_uuid
           /\ layer_sets' = layer_sets
           /\ \A dex \in Slots : SlotEntries(dex)' = SlotEntries(dex)
           /\ \A i \in DOMAIN signals' :
                  signals'[i].sig \notin {"didChangeComposition", "didChangeColorLimits"}

\* C20: change_rgb_component_layer whose every supplied channel already refers
\* to the same component layer changes no layer and no layer set and emits
\* neither didChangeComposition nor didChangeColorLimits.
C20_SameChannelsNoOp == [][C20_AssignStep]_vars

\* a composite was given, for two channels at once, the layer both already had
C20_ReassignedSame ==
    /\ op.name = "change_rgb_component_layer"
    /\ err = "none"
    /\ signals = <<>>
    /\ Cardinality(DOMAIN op.rgba) = 2
    /\ AlreadyAssigned(layer_with_uuid[op.uuid], op.rgba)

\* whether the call of op' gives channel k of the layer a component it did not have
ChannelChanges(layer, rgba, k) == k \in DOMAIN rgba /\ Channel(layer, k) # Some(rgba[k])

C21_AssignStep ==
    (op'.name = "change_rgb_component_layer" /\ op'.uuid \in DOMAIN layer_with_uuid')
        => LET old == layer_with_uuid[op'.uuid]
               new == layer_with_uuid'[op'.uuid]
               rgba == op'.rgba
               stored == assign_channels_loop(old, rgba, Channels).clim
           IN \A i \in 1..3 :
                 IF ChannelChanges(old, rgba, Channels[i])
                 THEN /\ stored[i] = None
                      /\ Channel(new, Channels[i]) = Some(rgba[Channels[i]])
                      /\ new.clim[i] = Some(layer_with_uuid[rgba[Channels[i]]].clim)
                 ELSE /\ stored[i] = old.clim[i]
                      /\ Channel(new, Channels[i]) = Channel(old, Channels[i])
                      /\ new.clim[i] = old.clim[i]

\* C21: when change_rgb_component_layer changes some of the channels of a
\* composite, the color-limit pairs stored at line 848 are None exactly for the
\* channels whose component changed, so that those are derived again from the
\* new component, and the pairs of the other channels are the ones the
\* composite had before the call.
C21_ChangedChannelsCleared == [][C21_AssignStep]_vars

\* r of a composite was reassigned while its g kept limits that are not those
\* of g's own component
C21_KeptForeignLimits ==
    /\ op.name = "change_rgb_component_layer"
    /\ err = "none"
    /\ DOMAIN op.rgba = {"r"}
    /\ \E i \in DOMAIN signals : signals[i].sig = "didChangeComposition" /\ signals[i].uuid = op.uuid
    /\ LET layer == layer_with_uuid[op.uuid]
       IN /\ layer.g # None
          /\ layer.clim[2] # None
          /\ layer.clim[2] # Some(layer_with_uuid[Val(layer.g)].clim)
          /\ layer.clim[1] = Some(layer_with_uuid[op.rgba["r"]].clim)

\* the catalogue before and after the step, as document values
Before == [lw |-> layer_with_uuid]
After == [lw |-> layer_with_uuid']

\* the siblings the master of op' had before the call, the master left out
SiblingsBefore == Range(rgb_layer_siblings_uuids(Before, op'.uuid)) \ {op'.uuid}

\* whether the call of op' changed a channel of its composite
MasterChanged ==
    /\ op'.name = "change_rgb_component_layer"
    /\ op'.propagate_to_siblings
    /\ \E k \in Range(Channels) : ChannelChanges(layer_with_uuid[op'.uuid], op'.rgba, k)

\* channel i of a sibling that has a scheduled time differs from the master's
\* new band and no image of the sibling's scheduled time has that band
MissingBlock(sibling, i) ==
    LET mb == band(After, op'.uuid)[i]
    IN /\ sched_time(Before, sibling) # None
       /\ mb # band(Before, sibling)[i]
       /\ building_block(Before, platform_instrument(After, op'.uuid),
                         sched_time(Before, sibling), mb) = None

C22_PropagateStep ==
    (MasterChanged /\ \E sibling \in SiblingsBefore, i \in 1..3 : MissingBlock(sibling, i))
        => /\ err' = "none"
           /\ \A sibling \in SiblingsBefore, i \in 1..3 :
                 MissingBlock(sibling, i)
                     => Channel(layer_with_uuid'[sibling], Channels[i])
                            = Channel(layer_with_uuid[sibling], Channels[i])

\* C22: when change_rgb_component_layer propagates to a sibling for which no
\* image layer has the sibling's scheduled time and the master's new band on
\* some channel, that channel of the sibling keeps its component and the call
\* returns without error.
C22_MissingBlockSkipped == [][C22_PropagateStep]_vars

\* C23: change_rgb_component_layer with propagation terminates, and among the
\* calls of change_rgb_component_layer made during one call of the document
\* none is nested deeper than two and every nested one has
\* propagate_to_siblings = False.
C23_NestingAtMostTwo ==
    \A i \in DOMAIN calls :
        /\ calls[i].depth <= 2
        /\ calls[i].depth = 2 => ~calls[i].propagate_to_siblings

\* a propagating call returned after it reassigned a sibling in a nested call
C23_NestedCallMade ==
    /\ op.name = "change_rgb_component_layer"
    /\ err = "none"
    /\ Len(calls) = 2
    /\ calls[1] = [depth |-> 1, propagate_to_siblings |-> TRUE]
    /\ calls[2].depth = 2

\* the siblings whose channels the call of op' reassigned
AffectedSiblings ==
    {sibling \in SiblingsBefore :
        \E k \in Range(Channels) :
            Channel(layer_with_uuid'[sibling], k) # Channel(layer_with_uuid[sibling], k)}

\* the positions of the didChangeColorLimits signals in a trace
ColorLimitEvents(S) == {i \in DOMAIN S : S[i].sig = "didChangeColorLimits"}

C24_PropagateStep ==
    (MasterChanged /\ err' = "none" /\ AffectedSiblings # {})
        => /\ Cardinality(ColorLimitEvents(signals')) = 1
           /\ \A i \in ColorLimitEvents(signals') :
                 DOMAIN signals'[i].changed = {op'.uuid} \cup AffectedSiblings

\* C24: a propagating change_rgb_component_layer that changes its composite and
\* at least one sibling emits didChangeColorLimits exactly once, and that one
\* notification covers the composite and every sibling it reassigned.
C24_OneColorLimitsNotification == [][C24_PropagateStep]_vars

\* every image a sibling needs to follow the master's new band is loaded
BlocksLoaded ==
    \A sibling \in SiblingsBefore, i \in 1..3 :
        band(After, op'.uuid)[i] # band(Before, sibling)[i]
            => building_block(Before, platform_instrument(After, op'.uuid),
                              sched_time(Before, sibling), band(After, op'.uuid)[i]) # None

C25_PropagateStep ==
    (MasterChanged /\ BlocksLoaded)
        => /\ err' = "none"
           /\ \A sibling \in SiblingsBefore :
                 /\ band(After, sibling) = band(After, op'.uuid)
                 /\ platform_instrument(After, sibling) = platform_instrument(After, op'.uuid)
                 /\ sched_time(After, sibling) = sched_time(Before, sibling)
                 /\ \A k \in Range(Channels) :
                       LET old == Channel(layer_with_uuid[sibling], k)
                           new == Channel(layer_with_uuid'[sibling], k)
                       IN new # old
                            => /\ new # None
                               /\ layer_with_uuid[Val(new)].kind = "IMAGE"
                               /\ Some(image_sched_time(Val(new))) = sched_time(Before, sibling)

\* C25: after a propagating change_rgb_component_layer that changed its
\* composite, when the images the siblings need are loaded, every composite
\* that had the master's platform, instrument and band triplet before the call
\* has the master's new band triplet, and each channel it was given is an image
\* of the sibling's own scheduled time.
C25_SiblingsFollow == [][C25_PropagateStep]_vars

\* a sibling of another scheduled time followed its master to a new band
C25_SiblingFollowed ==
    /\ op.name = "change_rgb_component_layer"
    /\ err = "none"
    /\ Len(calls) = 2
    /\ \E sibling \in DOMAIN layer_with_uuid \ {op.uuid} :
          LET now == [lw |-> layer_with_uuid]
          IN /\ layer_with_uuid[sibling].kind = "RGB"
             /\ band(now, sibling) = band(now, op.uuid)
             /\ sched_time(now, sibling) # sched_time(now, op.uuid)
             /\ \E i \in DOMAIN signals :
                   signals[i].sig = "didChangeComposition" /\ signals[i].uuid = sibling

\* the master of the loop call that is being taken
LoopMaster == op'.rgb_uuid

\* the master of a loop call is no composite, or a composite without a
\* scheduled time
NotLoopable ==
    \/ layer_with_uuid[LoopMaster].kind # "RGB"
    \/ sched_time(Before, LoopMaster) = None

C26_LoopStep ==
    (op'.name = "loop_rgb_layers_following" /\ NotLoopable)
        => /\ err' = "none"
           /\ signals' = <<>>
           /\ UNCHANGED <<layer_with_uuid, layer_sets, heap, current_set_index, generated>>

\* C26: loop_rgb_layers_following on a master that is not an RGB composite, or
\* that has no scheduled time, returns without changing the catalogue or any
\* layer set (no layer created, no visibility or animation order changed) and
\* emits no notification.
C26_FailsSoft == [][C26_LoopStep]_vars

\* a loop was asked of a composite without channels while images of two time
\* steps and a composite with a scheduled time were there to loop over
C26_LoopOfUnconfigured ==
    /\ op.name = "loop_rgb_layers_following"
    /\ layer_with_uuid[op.rgb_uuid].kind = "RGB"
    /\ sched_time([lw |-> layer_with_uuid], op.rgb_uuid) = None
    /\ op.create_additional_layers /\ op.make_contributing_layers_invisible
    /\ \E u, v \in directory_of_layers(Doc, "IMAGE") :
          image_sched_time(u) # image_sched_time(v)
    /\ signals = <<>> /\ err = "none"

\* the derived animation order of the current layer set after the step
AnimationOrderAfter == animation_order(heap'[Val(layer_sets'[current_set_index' + 1])])

C27_LoopStep ==
    (op'.name = "loop_rgb_layers_following" /\ ~NotLoopable /\ err' = "none")
        => /\ signals' # <<>>
           /\ signals'[Len(signals')].sig = "didReorderAnimation"
           /\ signals'[Len(signals')].order = AnimationOrderAfter
           /\ \E i \in DOMAIN AnimationOrderAfter : AnimationOrderAfter[i] = LoopMaster
           /\ \A i \in DOMAIN AnimationOrderAfter :
                 LET uuid == AnimationOrderAfter[i]
                 IN /\ uuid \in DOMAIN layer_with_uuid'
                    /\ layer_with_uuid'[uuid].kind = "RGB"
                    /\ platform_instrument(After, uuid) = platform_instrument(After, LoopMaster)
                    /\ band(After, uuid) = band(After, LoopMaster)
                    /\ sched_time(After, uuid) # None
           /\ \A i, j \in DOMAIN AnimationOrderAfter :
                 i < j => Val(sched_time(After, AnimationOrderAfter[i]))
                              < Val(sched_time(After, AnimationOrderAfter[j]))

\* C27: after a loop_rgb_layers_following that returns past its checks, the
\* derived animation order of the current layer set is the sequence carried by
\* the last signal, didReorderAnimation; it contains the master, holds only RGB
\* composites with the master's platform, instrument and band triplet, and
\* their scheduled times strictly ascend (so there is one composite per time).
C27_LoopIsTimeSorted == [][C27_LoopStep]_vars

\* a loop put two composites of different times into the animation order
\* while a third composite, which shares the key of one of them, stayed out
C27_LoopOfTwo ==
    /\ op.name = "loop_rgb_layers_following"
    /\ err = "none"
    /\ LET order == animation_order(heap[Val(layer_sets[current_set_index + 1])])
       IN /\ Len(order) = 2
          /\ \E uuid \in directory_of_layers(Doc, "RGB") :
                /\ uuid \notin Range(order)
                /\ \E i \in DOMAIN order : layer_key(Doc, uuid) = layer_key(Doc, order[i])

\* the images whose entry in the current layer set went from visible to hidden
HiddenByStep ==
    {uuid \in directory_of_layers(Before, "IMAGE") :
        /\ \E i \in DOMAIN Store(current_set_index) :
              /\ Store(current_set_index)[i].uuid = uuid
              /\ Store(current_set_index)[i].visible
        /\ \E i \in DOMAIN heap'[Val(layer_sets'[current_set_index' + 1])].store :
              LET entry == heap'[Val(layer_sets'[current_set_index' + 1])].store[i]
              IN entry.uuid = uuid /\ ~entry.visible}

\* the composites the step added to the catalogue
SynthesizedByStep ==
    {uuid \in DOMAIN layer_with_uuid' \ DOMAIN layer_with_uuid :
        layer_with_uuid'[uuid].kind = "RGB"}

C28_LoopStep ==
    (op'.name = "loop_rgb_layers_following" /\ err' = "none")
        => /\ \A image \in HiddenByStep :
                 \E composite \in SynthesizedByStep :
                     \E k \in Range(Channels) :
                         Channel(layer_with_uuid'[composite], k) = Some(image)
           /\ ~op'.create_additional_layers
                 => SynthesizedByStep = {} /\ HiddenByStep = {}

\* C28: loop_rgb_layers_following hides only images that are channels of a
\* composite the same call created; with create_additional_layers false it
\* creates no composite and hides no image.
C28_HidesOnlyConsumed == [][C28_LoopStep]_vars

C29_LoopStep ==
    (/\ op'.name = "loop_rgb_layers_following"
     /\ op'.force_color_limits
     /\ ~NotLoopable
     /\ err' = "none")
        => \A i \in DOMAIN AnimationOrderAfter :
              layer_with_uuid'[AnimationOrderAfter[i]].clim = layer_with_uuid'[LoopMaster].clim

\* C29: after a loop_rgb_layers_following with force_color_limits true that
\* returns past its checks, every composite of the resulting animation order
\* has the color limits of the master.
C29_SequenceSharesLimits == [][C29_LoopStep]_vars

\* a loop with force_color_limits gave the master's limits to a composite of
\* another time step that had others
C29_LimitsForced ==
    /\ op.name = "loop_rgb_layers_following"
    /\ op.force_color_limits
    /\ err = "none"
    /\ \E i \in DOMAIN signals :
          /\ signals[i].sig = "didChangeColorLimits"
          /\ \E uuid \in DOMAIN signals[i].changed :
                /\ uuid # op.rgb_uuid
                /\ layer_with_uuid[uuid].clim = layer_with_uuid[op.rgb_uuid].clim
                /\ sched_time(Doc, uuid) # sched_time(Doc, op.rgb_uuid)

\* the entries of the current layer set after the step
StoreAfter == heap'[Val(layer_sets'[current_set_index' + 1])].store

\* the three channels of a create_rgb_composite call are images with an entry
\* in the current layer set
ThreeImagesPresent ==
    \A c \in {op'.r, op'.g, op'.b} :
        /\ c # None
        /\ Val(c) \in DOMAIN layer_with_uuid
        /\ layer_with_uuid[Val(c)].kind = "IMAGE"
        /\ Holds(current_set_index, Val(c))

C30_CreateStep ==
    (op'.name = "create_rgb_composite" /\ ThreeImagesPresent)
        => /\ err' = "none"
           /\ Cardinality(DOMAIN layer_with_uuid' \ DOMAIN layer_with_uuid) = 1
           /\ \A new \in DOMAIN layer_with_uuid' \ DOMAIN layer_with_uuid :
                 /\ layer_with_uuid'[new].kind = "RGB"
                 /\ StoreAfter[1].uuid = new
                 /\ Len(StoreAfter) = Len(Store(current_set_index)) + 1
                 /\ layer_with_uuid'[new].r = op'.r
                 /\ layer_with_uuid'[new].g = op'.g
                 /\ layer_with_uuid'[new].b = op'.b
                 /\ \E i, j \in DOMAIN signals' :
                       /\ i < j
                       /\ signals'[i].sig = "didAddCompositeLayer" /\ signals'[i].uuid = new
                       /\ signals'[j].sig = "didChangeComposition" /\ signals'[j].uuid = new
                 /\ \A j \in DOMAIN signals' :
                       (signals'[j].sig = "didChangeComposition" /\ signals'[j].uuid = new)
                           => \E i \in 1..(j - 1) :
                                 signals'[i].sig = "didAddCompositeLayer" /\ signals'[i].uuid = new
           /\ \A c \in {op'.r, op'.g, op'.b} :
                 \A i \in DOMAIN StoreAfter :
                     StoreAfter[i].uuid = Val(c) => ~StoreAfter[i].visible

\* C30: create_rgb_composite(r, g, b) with three images that have an entry in
\* the current layer set returns, adds exactly one layer to the catalogue, an
\* RGB composite whose entry is at index 0 of the current set and whose three
\* channels are r, g and b, leaves the three images hidden in the current set,
\* and emits didAddCompositeLayer for the composite before its
\* didChangeComposition.
C30_CompositeCreated == [][C30_CreateStep]_vars

\* a selector of the toggle call being taken names no entry of the current set
SelectorAbsent ==
    \E n \in DOMAIN op'.rows_or_uuids :
        LET k == op'.rows_or_uuids[n]
        IN IF k.t = "row" THEN k.v >= Len(Store(current_set_index))
           ELSE ~Holds(current_set_index, k.v)

C31_ToggleStep ==
    (op'.name = "toggle_layer_visibility" /\ SelectorAbsent)
        => \/ /\ err' = "none"
              /\ \E i \in DOMAIN signals' : signals'[i].sig = "didChangeLayerVisibility"
           \/ /\ StoreAfter = Store(current_set_index)
              /\ signals' = <<>>

\* C31: a toggle_layer_visibility whose selectors include a row or identifier
\* that is not in the current layer set either returns, with every change
\* applied and didChangeLayerVisibility emitted, or leaves every entry of the
\* current set as it was and emits nothing.
C31_ToggleAllOrNothing == [][C31_ToggleStep]_vars

\* the rows (1-based) of a store whose entry has an animation ordinal
Animated(store) == {i \in DOMAIN store : store[i].a_order # None}

\* whether ao lists the animated entries of store by (a_order, identifier)
IsAnimationOrderOf(ao, store) ==
    /\ Len(ao) = Cardinality(Animated(store))
    /\ Range(ao) = {store[i].uuid : i \in Animated(store)}
    /\ \A m, n \in DOMAIN ao :
          m < n => \E i, j \in Animated(store) :
                      /\ i # j
                      /\ store[i].uuid = ao[m] /\ store[j].uuid = ao[n]
                      /\ \/ Val(store[i].a_order) < Val(store[j].a_order)
                         \/ /\ store[i].a_order = store[j].a_order
                            /\ store[i].uuid <= store[j].uuid

C32_ReadStep ==
    (op'.name = "select_layer_set" /\ err' = "none")
        => LET switched == signals'[Len(signals')]
           IN /\ switched.sig = "didSwitchLayerSet"
              /\ IsAnimationOrderOf(switched.animation, StoreAfter)
              /\ \A dex \in PopulatedSlots :
                    heap'[Val(layer_sets'[dex + 1])].store = Store(dex)
              /\ current_set_index' \notin PopulatedSlots
                    => StoreAfter = Store(current_set_index)

\* C32: the animation order that select_layer_set reads from the layer set it
\* switches to lists the identifiers of exactly the entries with an animation
\* ordinal, sorted by (a_order, identifier), and reading it leaves the entries
\* of every layer set as they were.
C32_DerivedAnimationOrder == [][C32_ReadStep]_vars

\* the animation order was read from a set whose two animated entries are
\* stored in the other order
C32_ReadOutOfStoreOrder ==
    /\ op.name = "select_layer_set"
    /\ err = "none"
    /\ Len(signals[Len(signals)].animation) = 2
    /\ signals[Len(signals)].animation[1] = Store(current_set_index)[2].uuid
    /\ signals[Len(signals)].animation[2] = Store(current_set_index)[1].uuid

C33_SlotStep ==
    /\ Len(layer_sets') >= Len(layer_sets)
    /\ \A dex \in PopulatedSlots : layer_sets'[dex + 1] # None

\* C33: no operation destroys a layer set slot: over every step the number of
\* slots does not decrease and a populated slot stays populated.
C33_SlotsNeverDestroyed == [][C33_SlotStep]_vars

\* a slot was appended and populated by select_layer_set, and layers were
\* removed afterwards, with both slots still populated
C33_TwoSlotsAfterRemoval ==
    /\ op.name \in {"remove_layer_prez", "remove_layers_from_all_sets"}
    /\ err = "none"
    /\ Cardinality(PopulatedSlots) = 2
    /\ current_set_index = 1
    /\ layer_with_uuid = <<>>

\* the identifiers of a remove_layers_from_all_sets call are distinct layers of
\* the catalogue
KnownLayersGiven ==
    /\ \A n \in DOMAIN op'.uuids : op'.uuids[n] \in DOMAIN layer_with_uuid
    /\ \A m, n \in DOMAIN op'.uuids : op'.uuids[m] = op'.uuids[n] => m = n

\* whether some populated slot holds an entry for uuid before the step
HeldBefore(uuid) == \E dex \in PopulatedSlots : Holds(dex, uuid)

\* whether some populated slot holds an entry for uuid after the step
HeldAfter(uuid) ==
    \E dex \in 0..(Len(layer_sets') - 1) :
        /\ layer_sets'[dex + 1] # None
        /\ \E i \in DOMAIN heap'[Val(layer_sets'[dex + 1])].store :
              heap'[Val(layer_sets'[dex + 1])].store[i].uuid = uuid

C34_RemoveStep ==
    (op'.name = "remove_layers_from_all_sets" /\ KnownLayersGiven)
        => /\ err' = "none"
           /\ \A n \in DOMAIN op'.uuids :
                 /\ ~HeldAfter(op'.uuids[n])
                 /\ op'.uuids[n] \notin DOMAIN layer_with_uuid'
                 /\ \E i \in DOMAIN signals' :
                       signals'[i].sig = "willPurgeLayer" /\ signals'[i].uuid = op'.uuids[n]
           /\ \A uuid \in DOMAIN layer_with_uuid' :
                 HeldAfter(uuid) \/ (uuid \in DOMAIN layer_with_uuid /\ ~HeldBefore(uuid))

\* C34: remove_layers_from_all_sets on layers of the catalogue returns and
\* leaves each of them in no layer set and out of the catalogue, with
\* willPurgeLayer emitted for it, whichever sets held it; and it leaves no
\* layer in the catalogue without an entry that had one before.
C34_RemovedEverywhere == [][C34_RemoveStep]_vars

\* the siblings of the layer a next_last_step call is given, in time order
StepSiblings ==
    IF layer_with_uuid[op'.uuid].kind = "RGB"
    THEN rgb_layer_siblings_uuids(Before, op'.uuid)
    ELSE time_siblings(Before, op'.uuid)

\* whether the entry of uuid in the current layer set is visible after the step
VisibleAfter(uuid) ==
    \E i \in DOMAIN StoreAfter : StoreAfter[i].uuid = uuid /\ StoreAfter[i].visible

C35_StepStep ==
    (op'.name = "next_last_step" /\ StepSiblings # <<>>)
        => LET n == Len(StepSiblings)
               at == CHOOSE i \in 1..n : StepSiblings[i] = op'.uuid
               target == StepSiblings[((at - 1 + op'.delta + n) % n) + 1]
           IN /\ err' = "none"
              /\ op'.returned = Some(target)
              /\ VisibleAfter(target)
              /\ \A i \in 1..n : StepSiblings[i] # target => ~VisibleAfter(StepSiblings[i])
              /\ (op'.delta = 1 /\ at = n) => target = StepSiblings[1]
              /\ (op'.delta = -1 /\ at = 1) => target = StepSiblings[n]

\* C35: next_last_step(uuid, delta) on a layer with siblings s[0..n-1] returns
\* s[(index of uuid + delta) mod n]; afterwards that sibling is visible in the
\* current layer set and every other sibling is hidden; stepping on from the
\* last sibling gives the first, stepping back from the first gives the last.
C35_StepsAroundSiblings == [][C35_StepStep]_vars

\* a step on from the later of two composites wrapped around to the earlier
C35_WrappedToFirst ==
    /\ op.name = "next_last_step"
    /\ op.delta = 1
    /\ err = "none"
    /\ layer_with_uuid[op.uuid].kind = "RGB"
    /\ op.returned # Some(op.uuid)
    /\ sched_time(Doc, Val(op.returned)) # None
    /\ sched_time(Doc, op.uuid) # None
    /\ Val(sched_time(Doc, Val(op.returned))) < Val(sched_time(Doc, op.uuid))
    /\ \E i \in DOMAIN Store(current_set_index) :
          /\ Store(current_set_index)[i].uuid = op.uuid
          /\ ~Store(current_set_index)[i].visible

\* the call being taken addresses the current layer set by identifiers it
\* holds, or switches to a slot that exists or is next
AddressedByIdentifier ==
    \/ /\ op'.name = "toggle_layer_visibility"
       /\ \A n \in DOMAIN op'.rows_or_uuids :
             /\ op'.rows_or_uuids[n].t = "uuid"
             /\ Holds(current_set_index, op'.rows_or_uuids[n].v)
    \/ /\ op'.name = "animation_order"
       /\ \A n \in DOMAIN op'.layer_or_uuid_seq :
             Holds(current_set_index, op'.layer_or_uuid_seq[n])
    \/ /\ op'.name = "remove_layer_prez"
       /\ op'.row_or_uuid.t = "uuid"
       /\ Holds(current_set_index, op'.row_or_uuid.v)
    \/ /\ op'.name = "select_layer_set"
       /\ op'.layer_set_index \in 0..Len(layer_sets)

C36_AddressedStep == AddressedByIdentifier => err' = "none"

\* C36: whether or not reorder_by_indices was applied to a layer set before,
\* toggle_layer_visibility by identifier, setting the animation order, removal
\* by identifier and select_layer_set (which clones the current set into an
\* empty slot and reads the animation order) return without an exception.
C36_UsableAfterReorder == [][C36_AddressedStep]_vars

\* C37: in every reachable state each assigned r, g or b channel of an RGB
\* composite of the catalogue is a layer of the catalogue: removal purges no
\* image that a remaining composite uses.
C37_ChannelsInCatalogue ==
    \A uuid \in DOMAIN layer_with_uuid :
        layer_with_uuid[uuid].kind = "RGB"
            => \A k \in Range(Channels) :
                  Channel(layer_with_uuid[uuid], k) # None
                      => Val(Channel(layer_with_uuid[uuid], k)) \in DOMAIN layer_with_uuid

\* C38: in every reachable state every presentation entry of every populated
\* layer set carries an identifier of the catalogue, so looking the entries of
\* a set up in the catalogue never misses.
C38_EntriesInCatalogue ==
    \A dex \in PopulatedSlots :
        \A i \in DOMAIN Store(dex) : Store(dex)[i].uuid \in DOMAIN layer_with_uuid

\* a removal has taken a layer out of the current set while another set keeps
\* its entry
C38_HeldElsewhereAfterRemoval ==
    /\ op.name = "remove_layer_prez"
    /\ err = "none"
    /\ \E uuid \in DOMAIN layer_with_uuid :
          /\ ~Holds(current_set_index, uuid)
          /\ \E dex \in PopulatedSlots : Holds(dex, uuid)

CurrentSlotPopulated ==
    /\ current_set_index \in Slots
    /\ layer_sets[current_set_index + 1] # None

C39_SelectStep ==
    /\ CurrentSlotPopulated'
    /\ (op'.name = "select_layer_set" /\ op'.layer_set_index \notin 0..Len(layer_sets))
          => /\ err' = "AssertionError"
             /\ layer_sets' = layer_sets
             /\ current_set_index' = current_set_index

\* C39: in every reachable state current_set_index is the index of a slot and
\* that slot is populated; a select_layer_set with an index below 0 or above
\* the number of slots fails, appends no slot and leaves current_set_index.
C39_CurrentSetValid == CurrentSlotPopulated /\ [][C39_SelectStep]_vars

\* a select_layer_set beyond the end was refused while the second slot was the
\* current one
C39_RefusedBeyondEnd ==
    /\ op.name = "select_layer_set"
    /\ op.layer_set_index > Len(layer_sets)
    /\ err = "AssertionError"
    /\ current_set_index = 1

\* the entries of the layer set of slot dex after the step
StoreAfterAt(dex) == heap'[Val(layer_sets'[dex + 1])].store

\* whether the toggle call being taken names row i (1-based) of the current set
Targeted(i) ==
    \E n \in DOMAIN op'.rows_or_uuids :
        LET k == op'.rows_or_uuids[n]
        IN IF k.t = "row" THEN k.v + 1 = i
           ELSE Store(current_set_index)[i].uuid = k.v

C40_ToggleStep ==
    op'.name = "toggle_layer_visibility"
        => /\ layer_with_uuid' = layer_with_uuid
           /\ current_set_index' = current_set_index
           /\ Len(layer_sets') = Len(layer_sets)
           /\ \A dex \in Slots : (layer_sets'[dex + 1] = None) <=> (layer_sets[dex + 1] = None)
           /\ \A dex \in PopulatedSlots \ {current_set_index} : StoreAfterAt(dex) = Store(dex)
           /\ Len(StoreAfter) = Len(Store(current_set_index))
           /\ \A i \in DOMAIN Store(current_set_index) :
                 /\ [StoreAfter[i] EXCEPT !.visible = Store(current_set_index)[i].visible]
                        = Store(current_set_index)[i]
                 /\ StoreAfter[i] # Store(current_set_index)[i] => Targeted(i)

\* C40: toggle_layer_visibility changes nothing but the visible field of the
\* entries of the current layer set that it was given: the order of the entries
\* and their a_order, colormap and climits, the entries of every other layer
\* set, the catalogue and current_set_index are as before.
C40_ToggleChangesVisibleOnly == [][C40_ToggleStep]_vars

\* a toggle reversed the visibility of an entry that has a colormap of its own
\* in the current set, with another set populated
C40_ToggledRecoloured ==
    /\ op.name = "toggle_layer_visibility"
    /\ err = "none"
    /\ op.visible = None
    /\ Cardinality(PopulatedSlots) = 2
    /\ \E dex \in PopulatedSlots \ {current_set_index} :
          \E i \in DOMAIN Store(current_set_index) :
              /\ Store(current_set_index)[i].uuid \in TargetedIds
              /\ Store(dex)[i].uuid = Store(current_set_index)[i].uuid
              /\ Store(dex)[i].colormap # Store(current_set_index)[i].colormap

====
